---- MODULE Spec2Model ----
(***************************************************************************)
(* Model of the webhook-to-execution routing and progress-tracking         *)
(* protocol of claude-code-containers.                                     *)
(*                                                                         *)
(*   - verifyWebhookSignature   src/src/handlers/webhooks/github.ts        *)
(*   - handleGitHubWebhook      src/src/handlers/webhooks/github.ts        *)
(*   - handleIssuesEventMcp     src/src/handlers/github_webhooks/          *)
(*                              issue-enhanced.ts.bak                      *)
(*   - the internal API         src/unnamed/part_002                       *)
(*   - ProgressBridge           src/src/lib/adapters/types.ts              *)
(*                                                                         *)
(* JavaScript strings are modelled as sequences of one-character strings,  *)
(* so that prefixes, replacements, splits and comparisons are computed.    *)
(* Each component has its own specification; the variables of the other    *)
(* components keep their initial values in it.                             *)
(***************************************************************************)
EXTENDS Integers, Sequences, FiniteSets, TLC

VARIABLES
  \* --- verifyWebhookSignature, applied to drawn inputs
  sigPayload,      \* the payload text handed to the verifier
  sigHeader,       \* the X-Hub-Signature-256 header value
  sigSigned,       \* the payload text the sender signed
  sigCreds,        \* what configDO.fetch('/get-credentials') yields
  sigResult,       \* the verifier's call: [done, threw, value]
  \* --- handleGitHubWebhook, one delivery at a time
  whPc,            \* position of the handler in the current delivery
  whReq,           \* the delivery being handled
  whResp,          \* the response sent for it (status 0: none yet)
  whBody,          \* the zen field of that response's body ("": none)
  whTrace,         \* the helpers the handler has called for it, in order
  whValid,         \* the verifier's call for it: [done, threw, value]
  configStore,     \* the config DO's stored row: [row, decryptOk, webhookSecret]
  webhookCount,    \* github_app_config.webhook_count of the config DO
  whDelivered,     \* deliveries received so far
  \* --- handleIssuesEventMcp, concurrent invocations
  issPc,           \* slot -> position of that invocation
  issData,         \* slot -> the webhook data it handles
  issCtx,          \* slot -> the contextId routeToMcpContainer generated
  issResp,         \* slot -> response status (0: none yet)
  issErr,          \* slot -> the error caught by the handler ("" : none)
  ghComments,      \* comments created on GitHub, in order
  executions,      \* container executions started (process-issue accepted)
  claudeKey,       \* whether an Anthropic API key is stored
  \* --- internal API (progress / completion callbacks)
  progressStore,   \* contextId -> sequence of ProgressUpdate
  completionStore, \* contextId -> CompletionNotification
  apiLast,         \* the last callback request and its response
  apiCalls,        \* callbacks handled so far
  \* --- ProgressBridge
  progressStates,  \* contextId -> ProgressState
  brComments,      \* the GitHub comments the bridge wrote
  brLast,          \* the last bridge call and its outcome
  brCalls,         \* bridge calls so far
  brInFlight,      \* slot -> the comment edit a progress callback issued
  \* --- the Worker's fetch handler and its Router
  rtLog,           \* the requests the Worker answered, with their responses
  \* --- WorkersCommentManager's rendering functions, applied to drawn inputs
  cmBar,           \* a CommentProgress and buildProgressBar's call on it
  cmBody,          \* a completion result and buildCompletionCommentBody's call on it
  \* --- the setup handlers and the config DOs by name
  suRuns,          \* run -> a POST /setup/claude: [key, outcome, done, resp, log]
  suStores,        \* DO name -> the stored row: [row, decryptOk, webhookSecret]
  suSetups,        \* the apps handleGitHubCallback stored, in order: [appId, webhookSecret]
  suVerified,      \* the last delivery verified against these DOs and the verdict
  \* --- handleNewIssueWithAdapters, one invocation
  ehPc,            \* position of the invocation
  ehIssue,         \* the issue it handles (0: none)
  ehCtx,           \* the contextId initializeProgress returned
  ehResult,        \* the container's response: "", "success", "failure", "notok", "throws"
  ehResp,          \* response status (0: none yet)
  \* --- the Executor: one trigger, from the Worker's acknowledgment to the
  \* --- end of processIssueWithMcp / processWithParsedContext
  exPc,            \* position of the run
  exVariant,       \* "mcp" (processIssueWithMcp), "context" (processWithParsedContext)
  exTurns,         \* turnCount
  exEvents,        \* the callbacks the ProgressReporter sent, in order
  exComments,      \* initial comments created on the issue, by author, in order
  exUpdated,       \* the comments (indexes of exComments) the Executor edited
  exCallbackFailed,\* whether some callback's fetch failed or was rejected
  exResult,        \* the ContainerResponse's success: "", "success", "failure"
  \* --- GitHubAppConfigDO.getInstallationToken, concurrent calls
  tkCache,         \* the rows of installation_tokens, in insertion order
  tkCalls,         \* slot -> the call: position, what it read, what it returned
  tkStarted,       \* calls started so far
  \* --- wall clock (Date.now()), in ticks
  now

sigVars == <<sigPayload, sigHeader, sigSigned, sigCreds, sigResult>>
whVars  == <<whPc, whReq, whResp, whBody, whTrace, whValid, configStore, webhookCount,
            whDelivered>>
issVars == <<issPc, issData, issCtx, issResp, issErr, ghComments, executions,
             claudeKey>>
apiVars == <<progressStore, completionStore, apiLast, apiCalls>>
brVars  == <<progressStates, brComments, brLast, brCalls, brInFlight>>
rtVars  == <<rtLog>>
cmVars  == <<cmBar, cmBody>>
suVars  == <<suRuns, suStores, suSetups, suVerified>>
ehVars  == <<ehPc, ehIssue, ehCtx, ehResult, ehResp>>
exVars  == <<exPc, exVariant, exTurns, exEvents, exComments, exUpdated,
             exCallbackFailed, exResult>>
tkVars  == <<tkCache, tkCalls, tkStarted>>
vars    == <<sigVars, whVars, issVars, apiVars, brVars, rtVars, cmVars, suVars, ehVars, exVars, tkVars, now>>

(***************************************************************************)
(* Bounds of the model.                                                    *)
(***************************************************************************)
MaxPayloadLen == 2
MaxSecretLen == 1
DigestLen == 4
MaxDeliveries == 2

(***************************************************************************)
(* Strings.                                                                *)
(***************************************************************************)
Prefix256 == <<"s", "h", "a", "2", "5", "6", "=">>

\* String.prototype.startsWith
StartsWith(s, p) == Len(s) >= Len(p) /\ SubSeq(s, 1, Len(p)) = p

\* The first index at which p occurs in s, 0 when it does not occur
IndexOf(s, p) ==
  LET hits == { i \in 1..(Len(s) - Len(p) + 1) : SubSeq(s, i, i + Len(p) - 1) = p }
  IN IF hits = {} THEN 0 ELSE CHOOSE i \in hits : \A j \in hits : i <= j

\* String.prototype.replace(p, '') with a string pattern: the first occurrence only
ReplaceFirst(s, p) ==
  LET i == IndexOf(s, p)
  IN IF i = 0 THEN s ELSE SubSeq(s, 1, i - 1) \o SubSeq(s, i + Len(p), Len(s))

HexChars == <<"0", "1", "2", "3", "4", "5", "6", "7", "8", "9",
              "a", "b", "c", "d", "e", "f">>

\* Number.prototype.toString(16): no leading zeros
RECURSIVE ToString16(_)
ToString16(n) ==
  IF n < 16 THEN <<HexChars[n + 1]>>
  ELSE ToString16(n \div 16) \o <<HexChars[(n % 16) + 1]>>

\* A plausible slip: the padding is left out
PadStart2Missing(s) == s

\* String.prototype.padStart(2, '0')
PadStart2(s) == IF Len(s) >= 2 THEN s ELSE <<"0">> \o s

\* Array.prototype.join('') of an array of strings
RECURSIVE JoinAll(_)
JoinAll(ss) == IF ss = <<>> THEN <<>> ELSE Head(ss) \o JoinAll(Tail(ss))

\* TextEncoder.encode: the UTF-8 bytes of a well-formed string
Utf8(c) ==
  CASE c = "a" -> <<97>>
    [] c = "{" -> <<123>>
    [] c = "U+00E9" -> <<195, 169>>
    [] c = "k" -> <<107>>
    [] c = "z" -> <<122>>

RECURSIVE TextEncode(_)
TextEncode(s) == IF s = <<>> THEN <<>> ELSE Utf8(Head(s)) \o TextEncode(Tail(s))

(***************************************************************************)
(* crypto.subtle.sign('HMAC', key, message).  SHA-256 is not computed: the *)
(* digest is a keyed function without collisions on the bounded inputs     *)
(* (the cryptographic assumption), DigestLen bytes long, with bytes below  *)
(* 16 and above 159 among them.                                            *)
(***************************************************************************)
ByteCode(b) ==
  CASE b = 97 -> 1 [] b = 123 -> 2 [] b = 195 -> 3 [] b = 169 -> 4
    [] b = 107 -> 5 [] b = 122 -> 6

RECURSIVE Fold8(_, _)
Fold8(acc, bs) == IF bs = <<>> THEN acc ELSE Fold8(acc * 8 + ByteCode(Head(bs)), Tail(bs))

RECURSIVE Shr8(_, _)
Shr8(n, k) == IF k = 0 THEN n ELSE Shr8(n \div 256, k - 1)

HmacSha256(keyBytes, msgBytes) ==
  LET h == Fold8(Fold8(0, keyBytes) * 8 + 7, msgBytes)
  IN [i \in 1..DigestLen |-> Shr8(h, i - 1) % 256]

(***************************************************************************)
(* GitHubAppConfigDO: the stored app configuration and its credentials.    *)
(* A store is [row, decryptOk, webhookSecret]: whether github_app_config   *)
(* holds a row, whether decrypt() succeeds on it, and the decrypted        *)
(* webhook secret.                                                         *)
(***************************************************************************)
NoCreds == [kind |-> "null", webhookSecret |-> <<>>]

\* getDecryptedCredentials: null without a row or when decrypt throws
getDecryptedCredentials(store) ==
  IF ~store.row THEN NoCreds
  ELSE IF ~store.decryptOk THEN NoCreds
  ELSE [kind |-> "creds", webhookSecret |-> store.webhookSecret]

\* configDO.fetch('http://internal/get-credentials'): the stub call may throw
\* (fault "throws"), answer with a non-ok status (fault "notok"), or answer
\* 200 with JSON.stringify(credentials)
FetchCredentials(store, fault) ==
  IF fault = "throws" THEN [kind |-> "throws", webhookSecret |-> <<>>]
  ELSE IF fault = "notok" THEN [kind |-> "notok", webhookSecret |-> <<>>]
  ELSE getDecryptedCredentials(store)

\* computedHex: Array.from(hashArray).map(b => b.toString(16).padStart(2,'0')).join('')
ComputedHex(hashArray) ==
  JoinAll([i \in 1..Len(hashArray) |-> PadStart2(ToString16(hashArray[i]))])

\* The body of verifyWebhookSignature's try block: [threw, value]
VerifyTry(payload, signature, creds) ==
  IF ~StartsWith(signature, Prefix256) THEN [threw |-> FALSE, value |-> FALSE]
  ELSE IF creds.kind = "throws" THEN [threw |-> TRUE, value |-> FALSE]
  ELSE IF creds.kind = "notok" THEN [threw |-> FALSE, value |-> FALSE]
  \* credentials is null: reading credentials.webhookSecret throws a TypeError
  ELSE IF creds.kind = "null" THEN [threw |-> TRUE, value |-> FALSE]
  ELSE IF creds.webhookSecret = <<>> THEN [threw |-> FALSE, value |-> FALSE]
  ELSE LET sigHex == ReplaceFirst(signature, Prefix256)
           hashArray == HmacSha256(TextEncode(creds.webhookSecret), TextEncode(payload))
       IN [threw |-> FALSE, value |-> (sigHex = ComputedHex(hashArray))]

\* A plausible slip: the catch block is missing and the exception escapes
VerifyNoCatch(payload, signature, creds) == VerifyTry(payload, signature, creds)

\* verifyWebhookSignature: every exception of the try block yields false
verifyWebhookSignature(payload, signature, creds) ==
  LET r == VerifyTry(payload, signature, creds)
  IN IF r.threw THEN [threw |-> FALSE, value |-> FALSE] ELSE r

(***************************************************************************)
(* Inputs of the verifier.                                                 *)
(***************************************************************************)
SeqsUpTo(S, n) == UNION { [1..k -> S] : k \in 0..n }

PayloadChars == {"a", "{", "U+00E9"}
SecretChars == {"k", "z"}
Payloads == SeqsUpTo(PayloadChars, MaxPayloadLen)
Secrets == SeqsUpTo(SecretChars, MaxSecretLen) \ {<<>>}

\* The header GitHub sends for a body and a secret: "sha256=" and the digest
\* as 2 * DigestLen lower-case hexadecimal digits
HexPair(b) == <<HexChars[(b \div 16) + 1], HexChars[(b % 16) + 1]>>
GoodHeader(payload, secret) ==
  LET d == HmacSha256(TextEncode(secret), TextEncode(payload))
  IN Prefix256 \o JoinAll([i \in 1..Len(d) |-> HexPair(d[i])])

UpperChar(c) ==
  CASE c = "a" -> "A" [] c = "b" -> "B" [] c = "c" -> "C" [] c = "d" -> "D"
    [] c = "e" -> "E" [] c = "f" -> "F" [] OTHER -> c

\* Headers that differ from g: one character replaced, one dropped or added,
\* the prefix missing, doubled or replaced, the digits in upper case
SubstChars == {"0", "1", "f", "F", "x"}
MutatedHeaders(g) ==
  LET hex == SubSeq(g, Len(Prefix256) + 1, Len(g))
  IN ({ [g EXCEPT ![i] = c] : i \in 1..Len(g), c \in SubstChars }
      \cup { SubSeq(g, 1, Len(g) - 1), g \o <<"0">>, hex, hex \o Prefix256,
             Prefix256 \o g, <<"s", "h", "a", "1", "=">> \o hex,
             Prefix256 \o [i \in 1..Len(hex) |-> UpperChar(hex[i])], <<>> })
     \ {g}

CredsOf(secret) == [kind |-> "creds", webhookSecret |-> secret]
FailingCreds == { [kind |-> k, webhookSecret |-> <<>>] : k \in {"throws", "notok", "null", "creds"} }

\* The result of a call: not made yet, or made with what it returned or threw
NotVerified == [done |-> FALSE, threw |-> FALSE, value |-> FALSE]
Returned(r) == [done |-> TRUE, threw |-> r.threw, value |-> r.value]

SigIdle ==
  /\ sigPayload = <<>> /\ sigHeader = <<>> /\ sigSigned = <<>>
  /\ sigCreds = NoCreds /\ sigResult = NotVerified

\* A signed delivery as it arrives: the signed body and its header, a body
\* changed on the way, a header changed on the way, or a failing lookup
SigDraw ==
  \E signed \in Payloads, secret \in Secrets :
    /\ sigSigned = signed
    /\ sigResult = NotVerified
    /\ \/ /\ sigPayload \in Payloads
          /\ sigHeader = GoodHeader(signed, secret)
          /\ sigCreds = CredsOf(secret)
       \/ /\ sigPayload = signed
          /\ sigHeader \in MutatedHeaders(GoodHeader(signed, secret))
          /\ sigCreds = CredsOf(secret)
       \/ /\ sigPayload = signed
          /\ sigHeader = GoodHeader(signed, secret)
          /\ sigCreds \in FailingCreds

\* The call verifyWebhookSignature(payload, signature, configDO)
SigVerify ==
  /\ ~sigResult.done
  /\ sigResult' = Returned(verifyWebhookSignature(sigPayload, sigHeader, sigCreds))
  /\ UNCHANGED <<sigPayload, sigHeader, sigSigned, sigCreds>>
  /\ UNCHANGED <<whVars, issVars, apiVars, brVars, rtVars, cmVars, suVars, ehVars, exVars, tkVars, now>>

(***************************************************************************)
(* handleGitHubWebhook (POST /webhooks/github).                            *)
(* A delivery is [signature, event, delivery, bodyParses, bodyIsNull, zen,  *)
(* payload, appIdIn, fault, logFault]: the three headers ("" or <<>>:      *)
(* absent), the body, whether JSON.parse accepts it, whether it is the     *)
(* JSON text null, its zen field, where the app id is found                *)
(* ("payload": installation.app_id, "header": the hook target id header,   *)
(* "none"), and what the calls to the config DO do for this delivery       *)
(* (known once they are made).                                             *)
(***************************************************************************)
Respond(status) == [status |-> status, pc |-> "done", zen |-> ""]
Continue(pc) == [status |-> 0, pc |-> pc, zen |-> ""]
\* jsonResponse({message, zen: webhookData.zen, timestamp}); an undefined zen
\* is left out of the body
RespondPing(zen) == [status |-> 200, pc |-> "done", zen |-> zen]

\* getAppConfiguration: the app id from the payload, else from the header;
\* a stub of the config DO whenever an app id was found
getAppConfiguration(req) ==
  IF req.appIdIn = "payload" THEN "stub"
  ELSE IF req.appIdIn = "header" THEN "stub"
  ELSE "null"

\* Lines 52-65: the try block around JSON.parse(payload) and the log line
\* that reads webhookData.installation, .repository and .action.  JSON.parse
\* throws on text that is not JSON; the log line throws a TypeError when the
\* parsed value is null.  Either way the catch answers 400.
JsonParseTry(req) ==
  IF ~req.bodyParses THEN "throws"
  ELSE IF req.bodyIsNull THEN "throws"
  ELSE "parsed"

\* A plausible slip: the signature check is skipped
ValidateOutcomeSkipVerify(req) ==
  IF req.signature = <<>> \/ req.event = "" \/ req.delivery = "" THEN Respond(400)
  ELSE IF JsonParseTry(req) = "throws" THEN Respond(400)
  ELSE IF req.event = "ping" THEN RespondPing(req.zen)
  ELSE IF getAppConfiguration(req) = "null" THEN Respond(404)
  ELSE Continue("log")

\* A plausible slip: a ping is handled like any other event
ValidateOutcomeNoPing(req) ==
  IF req.signature = <<>> \/ req.event = "" \/ req.delivery = "" THEN Respond(400)
  ELSE IF JsonParseTry(req) = "throws" THEN Respond(400)
  ELSE IF getAppConfiguration(req) = "null" THEN Respond(404)
  ELSE Continue("verify")

\* A plausible slip: the app configuration is looked up before the headers
\* and the body are validated
ValidateOutcomeLookupFirst(req) ==
  IF getAppConfiguration(req) = "null" THEN Respond(404)
  ELSE IF req.signature = <<>> \/ req.event = "" \/ req.delivery = "" THEN Respond(400)
  ELSE IF JsonParseTry(req) = "throws" THEN Respond(400)
  ELSE IF req.event = "ping" THEN RespondPing(req.zen)
  ELSE Continue("verify")

\* Lines 41-85: header validation, JSON.parse, the ping short cut and the
\* lookup of the app configuration
ValidateOutcome(req) ==
  IF req.signature = <<>> \/ req.event = "" \/ req.delivery = "" THEN Respond(400)
  ELSE IF JsonParseTry(req) = "throws" THEN Respond(400)
  ELSE IF req.event = "ping" THEN RespondPing(req.zen)
  ELSE IF getAppConfiguration(req) = "null" THEN Respond(404)
  ELSE Continue("verify")

\* A plausible slip: an invalid signature is logged but not rejected
VerifyOutcomeNoReject(r) ==
  IF r.threw THEN Respond(500) ELSE Continue("log")

\* Lines 88-96 and the handler's catch (114-122): what follows the verifier
VerifyOutcome(r) ==
  IF r.threw THEN Respond(500)
  ELSE IF ~r.value THEN Respond(401)
  ELSE Continue("log")

\* request.json() on a request whose body request.text() has read already:
\* the body is used, the promise rejects with a TypeError
RequestJson(bodyUsed) == IF bodyUsed THEN "throws" ELSE "parsed"

\* routeWebhookEvent: [status, handler]; handler "" when none is invoked.
\* An exception propagates to handleGitHubWebhook's catch, which answers 500.
routeWebhookEvent(event, bodyUsed) ==
  CASE event = "installation" ->
         IF RequestJson(bodyUsed) = "throws" THEN [status |-> 500, handler |-> ""]
         ELSE [status |-> 200, handler |-> "handleInstallationEvent"]
    [] event = "installation_repositories" ->
         IF RequestJson(bodyUsed) = "throws" THEN [status |-> 500, handler |-> ""]
         ELSE [status |-> 200, handler |-> "handleInstallationRepositoriesEvent"]
    [] event = "issues" ->
         IF RequestJson(bodyUsed) = "throws" THEN [status |-> 500, handler |-> ""]
         ELSE [status |-> 200, handler |-> "handleIssuesEventMcp"]
    [] event = "issue_comment" -> [status |-> 200, handler |-> ""]
    [] event = "pull_request" -> [status |-> 200, handler |-> ""]
    [] event = "pull_request_review" -> [status |-> 200, handler |-> ""]
    [] OTHER -> [status |-> 200, handler |-> ""]

SecretA == <<"k">>
SecretB == <<"z">>
WhPayload == <<"{", "a">>
EventTypes == {"", "ping", "installation", "installation_repositories", "issues",
               "issue_comment", "pull_request", "pull_request_review",
               "pull_request_review_comment", "push"}
Stores ==
  { [row |-> FALSE, decryptOk |-> TRUE, webhookSecret |-> <<>>],
    [row |-> TRUE, decryptOk |-> FALSE, webhookSecret |-> <<>>],
    [row |-> TRUE, decryptOk |-> TRUE, webhookSecret |-> <<>>],
    [row |-> TRUE, decryptOk |-> TRUE, webhookSecret |-> SecretA] }
\* The events that carry a comment or review body, and the bodies delivered
CommentEvents == {"issue_comment", "pull_request_review",
                  "pull_request_review_comment"}
CommentBodies ==
  { <<>>,
    <<"h", "e", "y", " ", "@", "C", "l", "a", "u", "d", "e", " ", "c", "a", "n", " ", "y", "o", "u", " ", "h", "e", "l", "p">>,
    <<"t", "h", "a", "n", "k", "s">> }
\* The zen values of ping payloads ("": the payload has none)
Zens == {"", "Design for failure."}
Deliveries ==
  { d \in
      [ signature : {<<>>, GoodHeader(WhPayload, SecretA), GoodHeader(WhPayload, SecretB),
                     SubSeq(GoodHeader(WhPayload, SecretA), Len(Prefix256) + 1,
                            Len(Prefix256) + 2 * DigestLen)},
        event : EventTypes,
        delivery : {"", "d1"},
        bodyParses : BOOLEAN,
        bodyIsNull : BOOLEAN,
        zen : Zens,
        payload : {WhPayload},
        commentBody : CommentBodies,
        action : {"", "opened", "closed"},
        appIdIn : {"payload", "header", "none"},
        fault : {"none"},
        logFault : {FALSE} ] :
      /\ d.event \in CommentEvents \/ d.commentBody = <<>>
      /\ d.event = "issues" <=> d.action # ""
      /\ d.bodyIsNull => d.bodyParses /\ d.event = "ping"
      /\ d.zen = "" \/ (d.event = "ping" /\ d.bodyParses /\ ~d.bodyIsNull) }
Faults == {"none", "throws", "notok"}
NoDelivery ==
  [signature |-> <<>>, event |-> "", delivery |-> "", bodyParses |-> FALSE,
   bodyIsNull |-> FALSE, zen |-> "",
   payload |-> <<>>, commentBody |-> <<>>, action |-> "", appIdIn |-> "none",
   fault |-> "none",
   logFault |-> FALSE]

WhOnly == UNCHANGED <<sigVars, issVars, apiVars, brVars, rtVars, cmVars, suVars, ehVars, exVars, tkVars, now>>

WhIdle ==
  /\ whPc = "idle" /\ whReq = NoDelivery /\ whResp = 0 /\ whBody = ""
  /\ whTrace = <<>>
  /\ whValid = NotVerified /\ webhookCount = 0 /\ whDelivered = 0

\* A delivery arrives; the handler reads the body with request.text()
WhReceive ==
  /\ whPc \in {"idle", "done"}
  /\ whDelivered < MaxDeliveries
  /\ whReq' \in Deliveries
  /\ whPc' = "validate" /\ whResp' = 0 /\ whBody' = "" /\ whTrace' = <<>>
  /\ whValid' = NotVerified
  /\ whDelivered' = whDelivered + 1
  /\ UNCHANGED <<configStore, webhookCount>>
  /\ WhOnly

WhValidate ==
  /\ whPc = "validate"
  /\ LET o == ValidateOutcome(whReq)
     IN /\ whPc' = o.pc /\ whResp' = o.status /\ whBody' = o.zen
        /\ whTrace' = IF o.pc = "done" /\ o.status # 404 THEN whTrace
                      ELSE Append(whTrace, "getAppConfiguration")
  /\ UNCHANGED <<whReq, whValid, configStore, webhookCount, whDelivered>>
  /\ WhOnly

WhVerify ==
  /\ whPc = "verify"
  /\ \E fault \in Faults :
       LET r == verifyWebhookSignature(whReq.payload, whReq.signature,
                                       FetchCredentials(configStore, fault))
           o == VerifyOutcome(r)
       IN /\ whReq' = [whReq EXCEPT !.fault = fault]
          /\ whValid' = Returned(r)
          /\ whPc' = o.pc /\ whResp' = o.status /\ whBody' = o.zen
  /\ whTrace' = Append(whTrace, "verifyWebhookSignature")
  /\ UNCHANGED <<configStore, webhookCount, whDelivered>>
  /\ WhOnly

\* logWebhookDelivery: POST /log-webhook; a failure is caught and logged.
\* logWebhook updates the row with id 1, when there is one.
WhLog ==
  /\ whPc = "log"
  /\ \E logFault \in BOOLEAN :
       /\ whReq' = [whReq EXCEPT !.logFault = logFault]
       /\ webhookCount' = IF ~logFault /\ configStore.row THEN webhookCount + 1
                          ELSE webhookCount
  /\ whTrace' = Append(whTrace, "logWebhookDelivery")
  /\ whPc' = "route"
  /\ UNCHANGED <<whResp, whBody, whValid, configStore, whDelivered>>
  /\ WhOnly

WhRoute ==
  /\ whPc = "route"
  /\ LET o == routeWebhookEvent(whReq.event, TRUE)
     IN /\ whResp' = o.status /\ whBody' = ""
        /\ whTrace' = IF o.handler = "" THEN Append(whTrace, "routeWebhookEvent")
                      ELSE whTrace \o <<"routeWebhookEvent", o.handler>>
  /\ whPc' = "done"
  /\ UNCHANGED <<whReq, whValid, configStore, webhookCount, whDelivered>>
  /\ WhOnly

(***************************************************************************)
(* handleIssuesEventMcp and routeToMcpContainer.                           *)
(* Webhook data is [shape, action, repo, issue, assignee, label, comment]: *)
(* shape "noIssue" is a payload without an issue object; assignee, label   *)
(* and comment are the login, the label name and the comment body (<<>>:   *)
(* absent).  A repository is [owner, name], each a sequence of tokens      *)
(* that are "-" or hold no "-", so that a split on "-" can be computed.    *)
(***************************************************************************)
MaxInFlight == 2
MaxIssClock == 1

Slots == 1..MaxInFlight

NumStrs ==
  <<"0", "1", "2", "3", "4", "5", "6", "7", "8", "9", "10", "11", "12",
    "13", "14", "15", "16", "17", "18", "19", "20", "21", "22", "23", "24",
    "25", "26", "27", "28", "29", "30", "31", "32", "33", "34", "35", "36",
    "37", "38", "39", "40", "41", "42", "43", "44", "45", "46", "47", "48",
    "49", "50", "51", "52", "53", "54", "55", "56", "57", "58", "59", "60",
    "61", "62", "63", "64", "65", "66", "67", "68", "69", "70", "71", "72",
    "73", "74", "75", "76", "77", "78", "79", "80", "81", "82", "83", "84",
    "85", "86", "87", "88", "89", "90", "91", "92", "93", "94", "95", "96",
    "97", "98", "99">>
\* String(n) and template interpolation of a small number
NumStr(n) == NumStrs[n + 1]

FullName(repo) == repo.owner \o <<"/">> \o repo.name

\* `issue-${repository.full_name}-${issue.number}-${Date.now()}`
ContextId(repo, issue, t) ==
  <<"issue", "-">> \o FullName(repo) \o <<"-", NumStr(issue), "-", NumStr(t)>>

LowerChar(c) ==
  CASE c = "A" -> "a" [] c = "C" -> "c" [] c = "I" -> "i" [] c = "S" -> "s"
    [] c = "T" -> "t" [] c = "B" -> "b" [] OTHER -> c
\* String.prototype.toLowerCase
ToLowerCase(str) == [i \in 1..Len(str) |-> LowerChar(str[i])]
\* String.prototype.includes
Includes(str, p) == IndexOf(str, p) > 0

\* Lines 565-573: assigned to a login containing 'claude', or labeled with a
\* name whose lower case contains 'claude' or 'ai-assist'
shouldTrigger(data) ==
  \/ data.action = "assigned" /\ Includes(data.assignee, <<"c", "l", "a", "u", "d", "e">>)
  \/ /\ data.action = "labeled"
     /\ \/ Includes(ToLowerCase(data.label), <<"c", "l", "a", "u", "d", "e">>)
        \/ Includes(ToLowerCase(data.label), <<"a", "i", "-", "a", "s", "s", "i", "s", "t">>)

triggerPhrases == { <<"@", "c", "l", "a", "u", "d", "e">>, <<"/", "c", "l", "a", "u", "d", "e">>,
                    <<"c", "l", "a", "u", "d", "e", " ", "h", "e", "l", "p">>,
                    <<"c", "l", "a", "u", "d", "e", " ", "f", "i", "x">> }
\* Lines 603-606
isTriggered(data) ==
  \E phrase \in triggerPhrases : Includes(ToLowerCase(data.comment), phrase)

\* The branch of handleIssuesEventMcp that a well-formed payload takes
Branch(data) ==
  IF data.action = "opened" THEN "opened"
  ELSE IF data.action \in {"assigned", "labeled"}
    THEN IF shouldTrigger(data) THEN "signal" ELSE "skip"
  ELSE IF data.action = "comment" /\ data.comment # <<>>
    THEN IF isTriggered(data) THEN "comment" ELSE "skip"
  ELSE "skip"

\* The handler going on to the credentials after a step threw
AfterFailureCarryOn(branch) == "creds"

\* Where the handler goes when a step of a triggered branch throws: the
\* 'opened' branch posts an error comment (524-556), the others only log
AfterFailure(branch) == IF branch = "opened" THEN "errcomment" ELSE "done"

Repo1 == [owner |-> <<"acme">>, name |-> <<"widgets">>]
Issues == {42, 7}
NoData ==
  [shape |-> "ok", action |-> "", repo |-> Repo1, issue |-> 0,
   assignee |-> <<>>, label |-> <<>>, comment |-> <<>>]
IssueEvents ==
  { [NoData EXCEPT !.issue = n, !.action = a] : n \in Issues, a \in {"opened", "closed"} }
  \cup { [NoData EXCEPT !.issue = n, !.action = "assigned", !.assignee = <<"c", "l", "a", "u", "d", "e">>] :
         n \in Issues }
  \cup { [NoData EXCEPT !.issue = n, !.action = "labeled", !.label = <<"b", "u", "g">>] :
         n \in Issues }
  \cup { [NoData EXCEPT !.issue = 42, !.action = "assigned", !.assignee = <<"C", "l", "a", "u", "d", "e">>],
         [NoData EXCEPT !.issue = 42, !.action = "labeled", !.label = <<"A", "I", "-", "A", "s", "s", "i", "s", "t">>] }
  \cup { [NoData EXCEPT !.shape = "noIssue", !.action = "opened"] }

IssIdle ==
  /\ issPc = [s \in Slots |-> "idle"]
  /\ issData = [s \in Slots |-> NoData]
  /\ issCtx = [s \in Slots |-> <<>>]
  /\ issResp = [s \in Slots |-> 0]
  /\ issErr = [s \in Slots |-> ""]
  /\ ghComments = <<>> /\ executions = {}

IssOnly == UNCHANGED <<sigVars, whVars, apiVars, brVars, rtVars, cmVars, suVars, ehVars, exVars, tkVars>>

\* A step of slot s that ends the handler: the final return (637) answers 200
Finish(s) ==
  /\ issPc' = [issPc EXCEPT ![s] = "done"]
  /\ issResp' = [issResp EXCEPT ![s] = 200]

\* A step of slot s that caught the error err
Fail(s, err) ==
  /\ issErr' = [issErr EXCEPT ![s] = err]
  /\ LET nxt == AfterFailure(Branch(issData[s]))
     IN /\ issPc' = [issPc EXCEPT ![s] = nxt]
        /\ issResp' = [issResp EXCEPT ![s] = IF nxt = "done" THEN 200 ELSE 0]

\* Lines 476-495, 561-575, 602-608: the handler is entered with a payload.
\* Reading issue.number of a payload without issue throws out of the handler.
IssStart(s) ==
  /\ issPc[s] = "idle"
  /\ \E d \in IssueEvents :
       /\ issData' = [issData EXCEPT ![s] = d]
       /\ IF d.shape # "ok"
            THEN /\ issPc' = [issPc EXCEPT ![s] = "done"]
                 /\ issResp' = [issResp EXCEPT ![s] = 500]
          ELSE IF Branch(d) = "skip" THEN Finish(s)
          ELSE /\ issPc' = [issPc EXCEPT ![s] = "ack"]
               /\ UNCHANGED issResp
  /\ UNCHANGED <<issCtx, issErr, ghComments, executions, claudeKey, now>>
  /\ IssOnly

\* githubAPI.createComment: the acknowledgment comment (499, 579, 615); on
\* success routeToMcpContainer is entered and generates the contextId (347)
IssAck(s) ==
  /\ issPc[s] = "ack"
  /\ \E ok \in BOOLEAN :
       IF ok
         THEN /\ ghComments' = Append(ghComments,
                   [repo |-> issData[s].repo, issue |-> issData[s].issue,
                    kind |-> "ack", slot |-> s])
              /\ issCtx' = [issCtx EXCEPT
                   ![s] = ContextId(issData[s].repo, issData[s].issue, now)]
              /\ issPc' = [issPc EXCEPT ![s] = "creds"]
              /\ UNCHANGED <<issResp, issErr>>
         ELSE /\ Fail(s, "comment")
              /\ UNCHANGED <<ghComments, issCtx>>
  /\ UNCHANGED <<issData, executions, claudeKey, now>>
  /\ IssOnly

\* Lines 356-369: the installation token and the Claude API key are fetched;
\* a missing key throws 'Claude API key not configured'
IssCreds(s) ==
  /\ issPc[s] = "creds"
  /\ \E fetched \in BOOLEAN :
       IF fetched /\ claudeKey
         THEN /\ issPc' = [issPc EXCEPT ![s] = "exec"]
              /\ UNCHANGED <<issResp, issErr>>
         ELSE Fail(s, IF fetched THEN "nokey" ELSE "fetch")
  /\ UNCHANGED <<issData, issCtx, ghComments, executions, claudeKey, now>>
  /\ IssOnly

\* Lines 409-449: container.fetch('/process-issue') on the instance named by
\* the contextId; the container runs the issue until it answers
IssExecStart(s) ==
  /\ issPc[s] = "exec"
  /\ \E accepted \in BOOLEAN :
       IF accepted
         THEN /\ executions' = executions \cup
                   { [contextId |-> issCtx[s], repo |-> issData[s].repo,
                      issue |-> issData[s].issue, slot |-> s, running |-> TRUE] }
              /\ issPc' = [issPc EXCEPT ![s] = "executing"]
              /\ UNCHANGED <<issResp, issErr>>
         ELSE /\ Fail(s, "container")
              /\ UNCHANGED executions
  /\ UNCHANGED <<issData, issCtx, ghComments, claudeKey, now>>
  /\ IssOnly

\* Lines 451-462: the container answers, ok or not
IssExecReturn(s) ==
  /\ issPc[s] = "executing"
  /\ executions' = { IF e.slot = s THEN [e EXCEPT !.running = FALSE] ELSE e :
                     e \in executions }
  /\ \E ok \in BOOLEAN :
       IF ok THEN Finish(s) /\ UNCHANGED issErr
       ELSE Fail(s, "container")
  /\ UNCHANGED <<issData, issCtx, ghComments, claudeKey, now>>
  /\ IssOnly

\* Lines 530-556: the error comment of the 'opened' branch; its own failure
\* is logged and swallowed
IssErrComment(s) ==
  /\ issPc[s] = "errcomment"
  /\ \E ok \in BOOLEAN :
       ghComments' = IF ok THEN Append(ghComments,
                        [repo |-> issData[s].repo, issue |-> issData[s].issue,
                         kind |-> "error", slot |-> s])
                     ELSE ghComments
  /\ Finish(s)
  /\ UNCHANGED <<issData, issCtx, issErr, executions, claudeKey, now>>
  /\ IssOnly

\* Date.now() advances
IssTick ==
  /\ now < MaxIssClock
  /\ now' = now + 1
  /\ UNCHANGED issVars
  /\ IssOnly

(***************************************************************************)
(* The internal API: handleProgressUpdate, handleCompletion, getExecution  *)
(* over the module-level maps progressStore and completionStore.  A map is *)
(* a function whose domain is the set of its keys.                         *)
(***************************************************************************)
MaxApiCalls == 3
MaxApiClock == 1

\* Map.prototype.has / set
Has(map, key) == key \in DOMAIN map
MapSet(map, key, value) ==
  [k \in DOMAIN map \cup {key} |-> IF k = key THEN value ELSE map[k]]

\* new Date().toISOString() of the clock value t
ToISOString(t) == <<"T", NumStr(t), "Z">>

\* String.prototype.split('-') of a token sequence: the segments between
\* the "-" tokens
RECURSIVE SplitDash(_)
SplitDash(str) ==
  LET i == IndexOf(str, <<"-">>)
  IN IF i = 0 THEN <<str>>
     ELSE <<SubSeq(str, 1, i - 1)>> \o SplitDash(SubSeq(str, i + 1, Len(str)))

\* parseInt of a segment: the number its leading token spells, NaN (-1
\* here) when it spells none
ParseInt(segment) ==
  IF segment # <<>> /\ IndexOf(NumStrs, <<segment[1]>>) > 0
    THEN IndexOf(NumStrs, <<segment[1]>>) - 1
  ELSE -1

NotParsed == [ok |-> FALSE, owner |-> <<>>, repo |-> <<>>, issueNumber |-> 0]

\* Lines 371-381: the repository information handleFinalGitHubOperations
\* takes out of the contextId
ParseContextId(contextId) ==
  LET contextParts == SplitDash(contextId)
  IN IF Len(contextParts) < 4 THEN NotParsed
     ELSE [ok |-> TRUE, owner |-> contextParts[2], repo |-> contextParts[3],
           issueNumber |-> ParseInt(contextParts[4])]

\* Lines 303-322: the same parse in updateGitHubProgressComment, which also
\* gives up when owner, repo or issueNumber is falsy
ParseContextIdChecked(contextId) ==
  LET parsed == ParseContextId(contextId)
  IN IF parsed.ok /\ parsed.owner # <<>> /\ parsed.repo # <<>>
          /\ parsed.issueNumber > 0
       THEN parsed
     ELSE [parsed EXCEPT !.ok = FALSE]

\* Lines 42-97: the answer of handleProgressUpdate and the progressStore it
\* leaves.  An empty status or message (or an absent one) is falsy.
ProgressOutcome(pStore, method, contextId, body, t) ==
  IF method # "POST" THEN [resp |-> 405, store |-> pStore]
  ELSE IF contextId = <<>> THEN [resp |-> 400, store |-> pStore]
  ELSE IF ~body.parses THEN [resp |-> 500, store |-> pStore]
  ELSE IF body.status = "" \/ body.message = ""
    THEN [resp |-> 400, store |-> pStore]
  ELSE LET progressUpdate ==
             [contextId |-> contextId, status |-> body.status,
              message |-> body.message, progress |-> body.progress,
              timestamp |-> ToISOString(t)]
           created == IF Has(pStore, contextId) THEN pStore
                      ELSE MapSet(pStore, contextId, <<>>)
       IN [resp |-> 200,
           store |-> MapSet(created, contextId,
                            Append(created[contextId], progressUpdate))]

\* Lines 110-164: the answer of handleCompletion and the completionStore it
\* leaves; handleFinalGitHubOperations (359-426) only logs
CompletionOutcome(cStore, method, contextId, body, t) ==
  IF method # "POST" THEN [resp |-> 405, store |-> cStore]
  ELSE IF contextId = <<>> THEN [resp |-> 400, store |-> cStore]
  ELSE IF ~body.parses THEN [resp |-> 500, store |-> cStore]
  ELSE IF ~body.hasSuccess \/ body.message = ""
    THEN [resp |-> 400, store |-> cStore]
  ELSE LET completion ==
             [contextId |-> contextId, success |-> body.success,
              message |-> body.message, pullRequestUrl |-> body.pullRequestUrl,
              error |-> body.error, timestamp |-> ToISOString(t)]
       IN [resp |-> 200, store |-> MapSet(cStore, contextId, completion)]

\* Lines 188-194: the status getExecution reports
ExecutionStatus(pStore, cStore, contextId) ==
  LET progress == IF Has(pStore, contextId) THEN pStore[contextId] ELSE <<>>
  IN IF Has(cStore, contextId)
       THEN (IF cStore[contextId].success THEN "completed" ELSE "failed")
     ELSE IF Len(progress) > 0 THEN progress[Len(progress)].status
     ELSE "not_found"

\* Line 197
TotalUpdates(pStore, contextId) ==
  IF Has(pStore, contextId) THEN Len(pStore[contextId]) ELSE 0

Repo2 == [owner |-> <<"acme">>, name |-> <<"my", "-", "repo">>]
ApiContexts ==
  {ContextId(Repo1, 42, 0), ContextId(Repo1, 7, 0), ContextId(Repo2, 7, 0), <<>>}
Methods == {"POST", "GET"}
\* The progress percentages (0-100) the callbacks report
ProgressValues == {10, 30, 25, 60}
ProgressBodies ==
  { b \in [parses : {TRUE}, status : {"", "in_progress", "completed"},
           message : {"", "working"}, progress : ProgressValues \cup {0}] :
      (b.status # "" /\ b.message # "") <=> b.progress # 0 }
  \cup {[parses |-> FALSE, status |-> "", message |-> "", progress |-> 0]}
CompletionBodies ==
  { [parses |-> TRUE, hasSuccess |-> TRUE, success |-> TRUE, message |-> "done",
     pullRequestUrl |-> "pr", error |-> ""],
    [parses |-> TRUE, hasSuccess |-> TRUE, success |-> FALSE, message |-> "failed",
     pullRequestUrl |-> "", error |-> "boom"],
    [parses |-> TRUE, hasSuccess |-> FALSE, success |-> FALSE, message |-> "done",
     pullRequestUrl |-> "", error |-> ""],
    [parses |-> TRUE, hasSuccess |-> TRUE, success |-> TRUE, message |-> "",
     pullRequestUrl |-> "", error |-> ""],
    [parses |-> FALSE, hasSuccess |-> FALSE, success |-> FALSE, message |-> "",
     pullRequestUrl |-> "", error |-> ""] }

NoCall ==
  [op |-> "none", contextId |-> <<>>, resp |-> 0, status |-> "",
   parsed |-> NotParsed]

ApiIdle ==
  /\ progressStore = <<>> /\ completionStore = <<>>
  /\ apiLast = NoCall /\ apiCalls = 0

ApiOnly == UNCHANGED <<sigVars, whVars, issVars, brVars, rtVars, cmVars, suVars, ehVars, exVars, tkVars>>

\* POST /api/v1/internal/progress/{contextId}
ApiProgress ==
  /\ apiCalls < MaxApiCalls
  /\ \E method \in Methods, contextId \in ApiContexts, body \in ProgressBodies :
       LET out == ProgressOutcome(progressStore, method, contextId, body, now)
       IN /\ progressStore' = out.store
          /\ apiLast' = [op |-> "progress", contextId |-> contextId,
                         resp |-> out.resp, status |-> "",
                         parsed |-> IF out.resp = 200
                                      THEN ParseContextIdChecked(contextId)
                                    ELSE NotParsed]
  /\ apiCalls' = apiCalls + 1
  /\ UNCHANGED <<completionStore, now>>
  /\ ApiOnly

\* POST /api/v1/internal/completion/{contextId}
ApiCompletion ==
  /\ apiCalls < MaxApiCalls
  /\ \E method \in Methods, contextId \in ApiContexts, body \in CompletionBodies :
       LET out == CompletionOutcome(completionStore, method, contextId, body, now)
       IN /\ completionStore' = out.store
          /\ apiLast' = [op |-> "completion", contextId |-> contextId,
                         resp |-> out.resp, status |-> "",
                         parsed |-> IF out.resp = 200
                                      THEN ParseContextId(contextId)
                                    ELSE NotParsed]
  /\ apiCalls' = apiCalls + 1
  /\ UNCHANGED <<progressStore, now>>
  /\ ApiOnly

\* GET /api/v1/executions/{contextId} (lines 177-207)
ApiGetExecution ==
  /\ apiCalls < MaxApiCalls
  /\ \E method \in Methods, contextId \in ApiContexts :
       apiLast' =
         IF method # "GET"
           THEN [NoCall EXCEPT !.op = "getExecution", !.contextId = contextId,
                               !.resp = 405]
         ELSE IF contextId = <<>>
           THEN [NoCall EXCEPT !.op = "getExecution", !.contextId = contextId,
                               !.resp = 400]
         ELSE [NoCall EXCEPT !.op = "getExecution", !.contextId = contextId,
                             !.resp = 200,
                             !.status = ExecutionStatus(progressStore,
                                                        completionStore, contextId)]
  /\ apiCalls' = apiCalls + 1
  /\ UNCHANGED <<progressStore, completionStore, now>>
  /\ ApiOnly

\* The wall clock read by new Date() advances
ApiTick ==
  /\ now < MaxApiClock
  /\ now' = now + 1
  /\ UNCHANGED apiVars
  /\ ApiOnly

(***************************************************************************)
(* ProgressBridge: the progressStates map of one bridge and the comments   *)
(* its comment manager creates and edits.  In this component the clock     *)
(* counts units of ten minutes.                                            *)
(***************************************************************************)
MaxBridgeCalls == 3
MaxBrClock == 7

\* 60 * 60 * 1000 ms in clock units
OneHour == 6

\* Map.prototype.delete
MapDelete(map, key) == [k \in DOMAIN map \ {key} |-> map[k]]

\* generateContextId: `${full_name}/${entityNumber}/${Date.now()}`
generateContextId(repo, entityNumber, t) ==
  FullName(repo) \o <<"/", NumStr(entityNumber), "/", NumStr(t)>>

Stages == {"analyzing", "processing", "implementing", "testing", "completing"}

\* A context id no initializeProgress ever returned
StrayContextId == generateContextId(Repo1, 99, 0)

NoBridgeCall ==
  [op |-> "none", contextId |-> <<>>, threw |-> FALSE, evicted |-> {}]

\* Progress callbacks handled at the same time
MaxUpdates == 2
UpdateSlots == 1..MaxUpdates

NoUpdate ==
  [phase |-> "idle", contextId |-> <<>>, commentId |-> 0, stage |-> "",
   received |-> 0]

BrIdle ==
  /\ progressStates = <<>> /\ brComments = <<>>
  /\ brLast = NoBridgeCall /\ brCalls = 0
  /\ brInFlight = [u \in UpdateSlots |-> NoUpdate]

BrOnly == UNCHANGED <<sigVars, whVars, issVars, apiVars, rtVars, cmVars, suVars, ehVars, exVars, tkVars>>

\* createInitialComment followed by initializeProgress, as
\* handleNewIssueWithAdapters calls them; the comment id is the position of
\* the comment
BrInitialize ==
  /\ brCalls < MaxBridgeCalls
  /\ \E entityNumber \in Issues :
       LET contextId == generateContextId(Repo1, entityNumber, now)
           commentId == Len(brComments) + 1
       IN /\ brComments' = Append(brComments,
               [issue |-> entityNumber, kind |-> "progress",
                stage |-> "analyzing", outcome |-> ""])
          /\ progressStates' = MapSet(progressStates, contextId,
               [contextId |-> contextId, commentId |-> commentId,
                issue |-> entityNumber, currentStage |-> "analyzing",
                startTime |-> now, lastUpdate |-> now])
          /\ brLast' = [NoBridgeCall EXCEPT !.op = "initializeProgress",
                                            !.contextId = contextId]
  /\ brCalls' = brCalls + 1
  /\ UNCHANGED <<brInFlight, now>>
  /\ BrOnly

\* handleContainerProgress: throws for an unknown context; otherwise the
\* state is updated and then the comment is edited, whose failure propagates
BrProgress ==
  /\ brCalls < MaxBridgeCalls
  /\ \E contextId \in DOMAIN progressStates \cup {StrayContextId},
        stage \in Stages, gatewayOk \in BOOLEAN :
       IF ~Has(progressStates, contextId)
         THEN /\ brLast' = [NoBridgeCall EXCEPT !.op = "handleContainerProgress",
                              !.contextId = contextId, !.threw = TRUE]
              /\ UNCHANGED <<progressStates, brComments>>
       ELSE LET st == progressStates[contextId]
            IN /\ progressStates' = MapSet(progressStates, contextId,
                    [st EXCEPT !.currentStage = stage, !.lastUpdate = now])
               /\ brComments' =
                    IF gatewayOk
                      THEN [brComments EXCEPT ![st.commentId].stage = stage]
                    ELSE brComments
               /\ brLast' = [NoBridgeCall EXCEPT !.op = "handleContainerProgress",
                               !.contextId = contextId, !.threw = ~gatewayOk]
  /\ brCalls' = brCalls + 1
  /\ UNCHANGED <<brInFlight, now>>
  /\ BrOnly

\* handleContainerProgress up to its await (233-248): the state is looked
\* up and updated and the comment edit is sent; received is the position of
\* the callback in the order of receipt
BrReceiveProgress(u) ==
  /\ brCalls < MaxBridgeCalls
  /\ brInFlight[u].phase = "idle"
  /\ \E contextId \in DOMAIN progressStates \cup {StrayContextId},
        stage \in Stages :
       IF ~Has(progressStates, contextId)
         THEN /\ brLast' = [NoBridgeCall EXCEPT !.op = "handleContainerProgress",
                              !.contextId = contextId, !.threw = TRUE]
              /\ brInFlight' = [brInFlight EXCEPT ![u] =
                   [NoUpdate EXCEPT !.phase = "threw", !.contextId = contextId,
                                    !.received = brCalls + 1]]
              /\ UNCHANGED progressStates
       ELSE LET st == progressStates[contextId]
            IN /\ progressStates' = MapSet(progressStates, contextId,
                    [st EXCEPT !.currentStage = stage, !.lastUpdate = now])
               /\ brInFlight' = [brInFlight EXCEPT ![u] =
                    [phase |-> "sent", contextId |-> contextId,
                     commentId |-> st.commentId, stage |-> stage,
                     received |-> brCalls + 1]]
               /\ brLast' = [NoBridgeCall EXCEPT !.op = "handleContainerProgress",
                               !.contextId = contextId]
  /\ brCalls' = brCalls + 1
  /\ UNCHANGED <<brComments, now>>
  /\ BrOnly

\* The comment edit of slot u reaches GitHub and the await of
\* handleContainerProgress (243-248) resolves, or rejects
BrApplyUpdate(u) ==
  /\ brInFlight[u].phase = "sent"
  /\ \E gatewayOk \in BOOLEAN :
       /\ brComments' =
            IF gatewayOk
              THEN [brComments EXCEPT
                      ![brInFlight[u].commentId].stage = brInFlight[u].stage]
            ELSE brComments
       /\ brInFlight' = [brInFlight EXCEPT
            ![u].phase = IF gatewayOk THEN "applied" ELSE "threw"]
  /\ UNCHANGED <<progressStates, brLast, brCalls, now>>
  /\ BrOnly

\* handleContainerCompletion: returns for an unknown context; otherwise the
\* final comment is created and then the state is deleted
BrCompletion ==
  /\ brCalls < MaxBridgeCalls
  /\ \E contextId \in DOMAIN progressStates \cup {StrayContextId},
        success \in BOOLEAN, gatewayOk \in BOOLEAN :
       IF ~Has(progressStates, contextId)
         THEN /\ brLast' = [NoBridgeCall EXCEPT !.op = "handleContainerCompletion",
                              !.contextId = contextId]
              /\ UNCHANGED <<progressStates, brComments>>
       ELSE IF ~gatewayOk
         THEN /\ brLast' = [NoBridgeCall EXCEPT !.op = "handleContainerCompletion",
                              !.contextId = contextId, !.threw = TRUE]
              /\ UNCHANGED <<progressStates, brComments>>
       ELSE /\ brComments' = Append(brComments,
                 [issue |-> progressStates[contextId].issue, kind |-> "final",
                  stage |-> "",
                  outcome |-> IF success THEN "success" ELSE "failure"])
            /\ progressStates' = MapDelete(progressStates, contextId)
            /\ brLast' = [NoBridgeCall EXCEPT !.op = "handleContainerCompletion",
                            !.contextId = contextId]
  /\ brCalls' = brCalls + 1
  /\ UNCHANGED <<brInFlight, now>>
  /\ BrOnly

\* cleanupStaleStates: every state last updated more than an hour ago is
\* deleted
BrCleanup ==
  /\ brCalls < MaxBridgeCalls
  /\ LET oneHourAgo == now - OneHour
         stale == { c \in DOMAIN progressStates :
                      progressStates[c].lastUpdate < oneHourAgo }
     IN /\ progressStates' = [c \in DOMAIN progressStates \ stale |->
                                progressStates[c]]
        /\ brLast' = [NoBridgeCall EXCEPT !.op = "cleanupStaleStates",
                                          !.evicted = stale]
  /\ brCalls' = brCalls + 1
  /\ UNCHANGED <<brComments, brInFlight, now>>
  /\ BrOnly

\* Ten minutes pass
BrTick ==
  /\ now < MaxBrClock
  /\ now' = now + 1
  /\ UNCHANGED brVars
  /\ BrOnly

(***************************************************************************)
(* The Worker's fetch handler, its Router, and the container's             *)
(* ProgressReporter.  A pathname is the sequence of its segments (the      *)
(* text between the slashes; "/" is the empty sequence), a segment a       *)
(* sequence of tokens like a contextId.  A route is [method, path,         *)
(* handler]; a segment of a route's path that is one token in braces is a  *)
(* parameter.                                                              *)
(***************************************************************************)
MaxRequests == 2

\* String.prototype.split on "/" of a token sequence
RECURSIVE SplitSlash(_)
SplitSlash(str) ==
  LET i == IndexOf(str, <<"/">>)
  IN IF i = 0 THEN <<str>>
     ELSE <<SubSeq(str, 1, i - 1)>> \o SplitSlash(SubSeq(str, i + 1, Len(str)))

Route(method, path, handler) ==
  [method |-> method, path |-> path, handler |-> handler]

\* The routes fetch registers, in order; the routes under 'TODO: Additional
\* API endpoints' are commented out and are not registered
routes ==
  << Route("GET", <<>>, "handleRoot"),
     Route("GET", << <<"setup">>, <<"claude">> >>, "getClaudeSetupStatus"),
     Route("POST", << <<"setup">>, <<"claude">> >>, "handleClaudeSetup"),
     Route("GET", << <<"setup">>, <<"github">>, <<"create">> >>, "handleGitHubAppCreation"),
     Route("GET", << <<"setup">>, <<"github">>, <<"callback">> >>, "handleGitHubCallback"),
     Route("GET", << <<"setup">>, <<"github">>, <<"install">> >>, "handleGitHubInstall"),
     Route("POST", << <<"webhooks">>, <<"github">> >>, "handleGitHubWebhook"),
     Route("GET", << <<"api">>, <<"v1">>, <<"status">> >>, "getSystemStatus") >>

\* A {name} segment of a route's path; the regular expression built from it
\* is ([^/]+)
IsParam(segment) ==
  Len(segment) = 1 /\ segment[1] \in {"{contextId}", "{id}", "{owner}", "{repo}"}

\* Router.matchPath: the pattern's regular expression, anchored at both
\* ends, matches the pathname (TRUE: params, FALSE: null)
matchPath(pattern, pathname) ==
  /\ Len(pattern) = Len(pathname)
  /\ \A i \in 1..Len(pattern) :
       IF IsParam(pattern[i]) THEN pathname[i] # <<>>
       ELSE pattern[i] = pathname[i]

\* Router.handle: the first route of the method whose path matches answers
\* (500 when its handler throws), 404 when there is none
RouterHandle(rs, method, pathname, threw) ==
  LET hits == { i \in 1..Len(rs) :
                  rs[i].method = method /\ matchPath(rs[i].path, pathname) }
  IN IF hits = {} THEN [status |-> 404, handler |-> ""]
     ELSE LET first == CHOOSE i \in hits : \A j \in hits : i <= j
          IN [status |-> IF threw THEN 500 ELSE 200, handler |-> rs[first].handler]

\* The Worker's fetch: a preflight is answered by handleCors, every other
\* request by the router over the routes it has just registered
WorkerFetch(method, pathname, threw) ==
  IF method = "OPTIONS" THEN [status |-> 204, handler |-> ""]
  ELSE RouterHandle(routes, method, pathname, threw)

\* `${workerBaseUrl}/api/v1/internal/progress/${contextId}` and its
\* completion twin, as pathnames
CallbackPath(kind, contextId) ==
  << <<"api">>, <<"v1">>, <<"internal">>, <<kind>> >> \o SplitSlash(contextId)

\* The contextIds a container is started with (CONTEXT_ID of /process-issue)
RtContexts == {ContextId(Repo1, 42, 0), ContextId(Repo2, 7, 0), <<"ctx">>}
RtMethods == {"GET", "POST", "PUT", "OPTIONS"}
RtPaths ==
  { routes[i].path : i \in 1..Len(routes) }
  \cup { << <<"api">>, <<"v1">>, <<"executions">>, <<"x">> >>,
         << <<"api">>, <<"v1">>, <<"internal">>, <<"progress">>, <<"x">> >> }

RtIdle == rtLog = <<>>
RtOnly == UNCHANGED <<sigVars, whVars, issVars, apiVars, brVars, cmVars, suVars, ehVars, exVars, tkVars, now>>

Answered(kind, method, pathname, resp) ==
  [kind |-> kind, method |-> method, pathname |-> pathname,
   status |-> resp.status, handler |-> resp.handler]

\* Some client sends a request to the Worker
RtRequest ==
  /\ Len(rtLog) < MaxRequests
  /\ \E method \in RtMethods, pathname \in RtPaths, threw \in BOOLEAN :
       rtLog' = Append(rtLog,
                  Answered("client", method, pathname, WorkerFetch(method, pathname, threw)))
  /\ RtOnly

\* ProgressReporter.reportProgress: the container POSTs a progress update
\* for its contextId to the Worker
RtReportProgress ==
  /\ Len(rtLog) < MaxRequests
  /\ \E contextId \in RtContexts, threw \in BOOLEAN :
       LET pathname == CallbackPath("progress", contextId)
       IN rtLog' = Append(rtLog,
                     Answered("progress", "POST", pathname, WorkerFetch("POST", pathname, threw)))
  /\ RtOnly

\* ProgressReporter.reportCompletion
RtReportCompletion ==
  /\ Len(rtLog) < MaxRequests
  /\ \E contextId \in RtContexts, threw \in BOOLEAN :
       LET pathname == CallbackPath("completion", contextId)
       IN rtLog' = Append(rtLog,
                     Answered("completion", "POST", pathname, WorkerFetch("POST", pathname, threw)))
  /\ RtOnly

(***************************************************************************)
(* WorkersCommentManager: buildProgressBar and buildCompletionCommentBody. *)
(* A rendered bar is the sequence of its characters.  A comment body is    *)
(* the sequence of its sections, each [kind, text] with text a sequence    *)
(* of strings.  An optional string that is undefined or empty is "".       *)
(***************************************************************************)
MaxFiles == 9

\* Math.round of the non-negative quotient num / den: floor(num / den + 0.5)
MathRound(num, den) == (2 * num + den) \div (2 * den)

\* String.prototype.repeat(count)
Repeat(char, count) == [i \in 1..count |-> char]

NoBar == [isNull |-> FALSE, threw |-> FALSE, bar |-> <<>>, percentage |-> 0]

\* buildProgressBar: null without file counts; else the percentage rounded,
\* a fifth of it rounded again as the filled count ("#" for the full block,
\* "." for the light shade); repeat throws a RangeError on a negative count
buildProgressBar(progress) ==
  IF progress.filesProcessed = 0 \/ progress.totalFiles = 0
    THEN [NoBar EXCEPT !.isNull = TRUE]
  ELSE LET percentage == MathRound(100 * progress.filesProcessed, progress.totalFiles)
           filled == MathRound(percentage, 5)
           empty == 20 - filled
       IN IF filled < 0 \/ empty < 0 THEN [NoBar EXCEPT !.threw = TRUE]
          ELSE [NoBar EXCEPT !.bar = Repeat("#", filled) \o Repeat(".", empty),
                             !.percentage = percentage]

Section(kind, text) == [kind |-> kind, text |-> text]
\* The line of three backticks that opens and closes a fenced block
Fence == "[fence]"

\* A plausible slip: the pull request link is shown whenever there is one
buildCompletionCommentBodyLinkAlways(result) ==
  << Section("heading", <<IF result.success THEN "completed" ELSE "encountered an error">>),
     Section("summary", <<result.summary>>) >>
  \o (IF result.pullRequestUrl # ""
        THEN <<Section("solution", <<result.pullRequestUrl>>)>> ELSE <<>>)
  \o (IF Len(result.filesModified) > 0
        THEN <<Section("files", result.filesModified)>> ELSE <<>>)
  \o (IF ~result.success /\ result.error # ""
        THEN <<Section("error", <<Fence, result.error, Fence>>)>> ELSE <<>>)
  \o <<Section("footer", <<>>)>>

\* buildCompletionCommentBody: heading and summary, then the sections whose
\* conditions hold, then the footer
buildCompletionCommentBody(result) ==
  << Section("heading", <<IF result.success THEN "completed" ELSE "encountered an error">>),
     Section("summary", <<result.summary>>) >>
  \o (IF result.success /\ result.pullRequestUrl # ""
        THEN <<Section("solution", <<result.pullRequestUrl>>)>> ELSE <<>>)
  \o (IF Len(result.filesModified) > 0
        THEN <<Section("files", result.filesModified)>> ELSE <<>>)
  \o (IF ~result.success /\ result.error # ""
        THEN <<Section("error", <<Fence, result.error, Fence>>)>> ELSE <<>>)
  \o <<Section("footer", <<>>)>>

\* The CommentProgress file counts drawn (absent counts are 0)
BarInputs ==
  [filesProcessed : 0..MaxFiles, totalFiles : 0..MaxFiles]
\* The completion results drawn
CompletionResults ==
  [success : BOOLEAN,
   summary : {"Implemented the fix"},
   pullRequestUrl : {"", "https://github.com/acme/widgets/pull/8"},
   filesModified : {<<>>, <<"src/a.ts">>, <<"src/a.ts", "README.md">>},
   error : {"", "Container timed out"}]

NoBarCall == [progress |-> [filesProcessed |-> 0, totalFiles |-> 0],
              done |-> FALSE, result |-> NoBar]
NoBodyCall ==
  [result |-> [success |-> FALSE, summary |-> "", pullRequestUrl |-> "",
               filesModified |-> <<>>, error |-> ""],
   done |-> FALSE, body |-> <<>>]

CmIdle == cmBar = NoBarCall /\ cmBody = NoBodyCall
CmOnly == UNCHANGED <<sigVars, whVars, issVars, apiVars, brVars, rtVars, suVars, ehVars, exVars, tkVars, now>>

\* buildProgressBar is applied to the drawn progress
CmBuildProgressBar ==
  /\ ~cmBar.done
  /\ cmBar' = [cmBar EXCEPT !.done = TRUE, !.result = buildProgressBar(cmBar.progress)]
  /\ UNCHANGED cmBody
  /\ CmOnly

\* buildCompletionCommentBody is applied to the drawn result
CmBuildCompletionCommentBody ==
  /\ ~cmBody.done
  /\ cmBody' = [cmBody EXCEPT !.done = TRUE, !.body = buildCompletionCommentBody(cmBody.result)]
  /\ UNCHANGED cmBar
  /\ CmOnly

(***************************************************************************)
(* The setup handlers: handleClaudeSetup (POST /setup/claude) and          *)
(* handleGitHubCallback (GET /setup/github/callback), with the config DOs  *)
(* env.GITHUB_APP_CONFIG.idFromName(name) addresses.  The log is the       *)
(* sequence of logWithContext calls, each [message, data] with data a      *)
(* sequence of characters.                                                 *)
(***************************************************************************)
MaxSetups == 2
KeyPrefixLen == 10

SkAnt == <<"s", "k", "-", "a", "n", "t", "-">>

\* String.prototype.trim (spaces only)
RECURSIVE Trim(_)
Trim(str) ==
  IF str = <<>> THEN str
  ELSE IF Head(str) = " " THEN Trim(Tail(str))
  ELSE IF str[Len(str)] = " " THEN Trim(SubSeq(str, 1, Len(str) - 1))
  ELSE str

\* String.prototype.substring(0, n)
Substring0(str, n) == SubSeq(str, 1, IF Len(str) < n THEN Len(str) ELSE n)

LogLine(message, data) == [message |-> message, data |-> data]

\* handleClaudeSetup on the submitted form value; outcome is what the
\* store-claude-key call does ("ok", "notok", "throws"): [resp, stored, log]
handleClaudeSetup(formValue, outcome) ==
  LET apiKey == Trim(formValue)
      first == LogLine("Storing Claude API key",
                       Substring0(apiKey, KeyPrefixLen) \o <<".", ".", ".">>)
  IN IF apiKey = <<>>
       THEN [resp |-> "form:Please enter your Anthropic API key", stored |-> FALSE, log |-> <<>>]
     ELSE IF ~StartsWith(apiKey, SkAnt)
       THEN [resp |-> "form:Invalid Anthropic API key format", stored |-> FALSE, log |-> <<>>]
     ELSE IF outcome = "notok"
       THEN [resp |-> "form:Failed to store API key securely", stored |-> FALSE,
             log |-> <<first, LogLine("Failed to store API key", <<>>)>>]
     ELSE IF outcome = "throws"
       THEN [resp |-> "form:An unexpected error occurred", stored |-> FALSE,
             log |-> <<first, LogLine("Claude setup error", <<>>)>>]
     ELSE [resp |-> "success", stored |-> TRUE,
           log |-> <<first, LogLine("Claude API key stored successfully", <<>>)>>]

\* The form values submitted: empty, blank, ill-formed, and keys that
\* differ in the character after the prefix or in the last character
ClaudeKeys ==
  { <<>>, <<" ">>, <<"x", "y">>, SkAnt }
  \cup { SkAnt \o <<c1, "0", "0", c2>> : c1 \in {"a", "b"}, c2 \in {"a", "b"} }
  \cup { <<" ">> \o SkAnt \o <<"a", "0", "0", "a", " ">> }
StoreOutcomes == {"ok", "notok", "throws"}
Runs == {1, 2}

NoRun == [key |-> <<>>, outcome |-> "ok", done |-> FALSE, resp |-> "", log |-> <<>>]

\* The DOs by name: 'claude-config' and one per app id
AppIds == {"123", "456"}
DoNames == {"claude-config"} \cup AppIds
EmptyStore == [row |-> FALSE, decryptOk |-> TRUE, webhookSecret |-> <<>>]
NoVerification ==
  [appId |-> "", signedWith |-> <<>>, fault |-> "none", done |-> FALSE, value |-> FALSE]

SuIdle ==
  /\ suRuns = [r \in Runs |-> NoRun]
  /\ suStores = [n \in DoNames |-> EmptyStore]
  /\ suSetups = <<>>
  /\ suVerified = NoVerification
SuOnly == UNCHANGED <<sigVars, whVars, issVars, apiVars, brVars, rtVars, cmVars, ehVars, exVars, tkVars, now>>

\* One POST /setup/claude, handled to its response
SuClaudeSetup(r) ==
  /\ ~suRuns[r].done
  /\ \E key \in ClaudeKeys, outcome \in StoreOutcomes :
       LET o == handleClaudeSetup(key, outcome)
       IN suRuns' = [suRuns EXCEPT ![r] =
                       [key |-> key, outcome |-> outcome, done |-> TRUE,
                        resp |-> o.resp, log |-> o.log]]
  /\ UNCHANGED <<suStores, suSetups, suVerified>>
  /\ SuOnly

\* handleGitHubCallback: the code is exchanged for the app's data (id,
\* webhook_secret), which is encrypted and POSTed to /store of the DO named
\* 'claude-config'; storeAppConfig replaces the row with id 1
SuGitHubCallback ==
  /\ Len(suSetups) < MaxSetups
  /\ \E appId \in AppIds, secret \in {SecretA, SecretB}, exchanged \in BOOLEAN, stored \in BOOLEAN :
       IF exchanged /\ stored
         THEN /\ suStores' = [suStores EXCEPT !["claude-config"] =
                                [row |-> TRUE, decryptOk |-> TRUE, webhookSecret |-> secret]]
              /\ suSetups' = Append(suSetups, [appId |-> appId, webhookSecret |-> secret])
         ELSE UNCHANGED <<suStores, suSetups>>
  /\ UNCHANGED <<suRuns, suVerified>>
  /\ SuOnly

\* A delivery that names an app id and is signed with a secret is verified:
\* getAppConfiguration takes the DO named by the app id, the verifier
\* fetches its credentials
SuVerifyDelivery ==
  /\ \E appId \in AppIds, secret \in {SecretA, SecretB}, fault \in Faults :
       LET configDO == suStores[appId]
           r == verifyWebhookSignature(WhPayload, GoodHeader(WhPayload, secret),
                                       FetchCredentials(configDO, fault))
       IN suVerified' = [appId |-> appId, signedWith |-> secret, fault |-> fault,
                         done |-> TRUE, value |-> r.value]
  /\ UNCHANGED <<suRuns, suStores, suSetups>>
  /\ SuOnly

(***************************************************************************)
(* handleNewIssueWithAdapters and executeInEnhancedContainer, over the     *)
(* ProgressBridge's progressStates and the comments on GitHub              *)
(* (brComments).                                                           *)
(***************************************************************************)
\* ProgressBridge.handleContainerCompletion as a function of the state:
\* [states, comments, threw]
HandleContainerCompletion(states, comments, contextId, success, gatewayOk) ==
  IF ~Has(states, contextId)
    THEN [states |-> states, comments |-> comments, threw |-> FALSE]
  ELSE IF ~gatewayOk
    THEN [states |-> states, comments |-> comments, threw |-> TRUE]
  ELSE [states |-> MapDelete(states, contextId),
        comments |-> Append(comments,
                       [issue |-> states[contextId].issue, kind |-> "final",
                        stage |-> "",
                        outcome |-> IF success THEN "success" ELSE "failure"]),
        threw |-> FALSE]

EhIdle ==
  /\ ehPc = "idle" /\ ehIssue = 0 /\ ehCtx = <<>> /\ ehResult = "" /\ ehResp = 0
EhOnly == UNCHANGED <<sigVars, whVars, issVars, apiVars, rtVars, cmVars, suVars, exVars, tkVars>>

\* Steps 1-2: the GitHub client and the initial comment; a failure goes to
\* the handler's catch
EhStart ==
  /\ ehPc = "idle"
  /\ \E issue \in Issues, ok \in BOOLEAN :
       /\ ehIssue' = issue
       /\ IF ok THEN /\ brComments' = Append(brComments,
                           [issue |-> issue, kind |-> "progress",
                            stage |-> "analyzing", outcome |-> ""])
                     /\ ehPc' = "prepare"
          ELSE /\ ehPc' = "outercatch"
               /\ UNCHANGED brComments
  /\ UNCHANGED <<ehCtx, ehResult, ehResp, progressStates, brLast, brCalls, brInFlight, now>>
  /\ EhOnly

\* Steps 3-7: configuration, data and prompt (any may throw), then
\* initializeProgress records the state under a fresh contextId
EhInitialize ==
  /\ ehPc = "prepare"
  /\ \E ok \in BOOLEAN :
       IF ok
         THEN LET contextId == generateContextId(Repo1, ehIssue, now)
              IN /\ progressStates' = MapSet(progressStates, contextId,
                      [contextId |-> contextId, commentId |-> Len(brComments),
                       issue |-> ehIssue, currentStage |-> "analyzing",
                       startTime |-> now, lastUpdate |-> now])
                 /\ ehCtx' = contextId
                 /\ ehPc' = "execute"
         ELSE /\ ehPc' = "outercatch"
              /\ UNCHANGED <<progressStates, ehCtx>>
  /\ UNCHANGED <<ehIssue, ehResult, ehResp, brComments, brLast, brCalls, brInFlight, now>>
  /\ EhOnly

\* executeInEnhancedContainer, lines 199-232: the container is called; a
\* thrown fetch or a non-ok response goes to its catch
EhExecute ==
  /\ ehPc = "execute"
  /\ \E result \in {"success", "failure", "notok", "throws"} :
       /\ ehResult' = result
       /\ ehPc' = IF result \in {"success", "failure"} THEN "complete" ELSE "catch"
  /\ UNCHANGED <<ehIssue, ehCtx, ehResp, brVars, now>>
  /\ EhOnly

\* Lines 244-251: the completion is handed to the bridge inside the try;
\* when the comment cannot be created the exception goes to the catch
EhComplete ==
  /\ ehPc = "complete"
  /\ \E gatewayOk \in BOOLEAN :
       LET o == HandleContainerCompletion(progressStates, brComments, ehCtx,
                                          ehResult = "success", gatewayOk)
       IN /\ progressStates' = o.states /\ brComments' = o.comments
          /\ IF o.threw THEN ehPc' = "catch" /\ UNCHANGED ehResp
             ELSE ehPc' = "done" /\ ehResp' = 200
  /\ UNCHANGED <<ehIssue, ehCtx, ehResult, brLast, brCalls, brInFlight, now>>
  /\ EhOnly

\* Lines 253-267: the catch hands a failed completion to the bridge and
\* throws (the caught error, or the one the bridge raised)
EhCatch ==
  /\ ehPc = "catch"
  /\ \E gatewayOk \in BOOLEAN :
       LET o == HandleContainerCompletion(progressStates, brComments, ehCtx,
                                          FALSE, gatewayOk)
       IN progressStates' = o.states /\ brComments' = o.comments
  /\ ehPc' = "outercatch"
  /\ UNCHANGED <<ehIssue, ehCtx, ehResult, ehResp, brLast, brCalls, brInFlight, now>>
  /\ EhOnly

\* handleNewIssueWithAdapters, lines 155-176: the catch creates a failed
\* completion comment itself (its failure is swallowed) and rethrows;
\* handleIssuesEventEnhanced answers with the error handler's response
EhOuterCatch ==
  /\ ehPc = "outercatch"
  /\ \E gatewayOk \in BOOLEAN :
       brComments' = IF gatewayOk
                       THEN Append(brComments,
                              [issue |-> ehIssue, kind |-> "final", stage |-> "",
                               outcome |-> "failure"])
                     ELSE brComments
  /\ ehPc' = "done" /\ ehResp' = 500
  /\ UNCHANGED <<ehIssue, ehCtx, ehResult, progressStates, brLast, brCalls, brInFlight, now>>
  /\ EhOnly

\* Date.now() advances
EhTick ==
  /\ now < MaxBrClock
  /\ now' = now + 1
  /\ UNCHANGED <<brVars, ehVars>>
  /\ EhOnly

(***************************************************************************)
(* The Executor (container_src/src/main-mcp.ts) and its ProgressReporter.  *)
(* One trigger: the Worker acknowledges the issue and posts it to          *)
(* /process-issue; the Executor runs processIssueWithMcp or                *)
(* processWithParsedContext on it.  Every await that can reject is a step  *)
(* with both outcomes; a ProgressReporter callback never rejects           *)
(* (its fetch is wrapped in try/catch), its outcome is drawn and recorded. *)
(* process.chdir and the logging calls are taken not to throw.             *)
(***************************************************************************)
MaxTurns == 6

\* progress?: number left undefined
NoPercent == 0 - 1

Min2(a, b) == IF a <= b THEN a ELSE b

\* Math.min(40 + (turnCount * 10), 80)  /  Math.min(40 + (turnCount * 8), 85)
turnProgressUncapped(variant, turnCount) ==
  IF variant = "mcp" THEN 40 + turnCount * 10 ELSE 40 + turnCount * 8
turnProgress(variant, turnCount) ==
  IF variant = "mcp" THEN Min2(40 + turnCount * 10, 80)
  ELSE Min2(40 + turnCount * 8, 85)

\* ProgressReporter: what is sent to /api/v1/internal/progress/<ctx> and to
\* /api/v1/internal/completion/<ctx>
reportProgress(events, status, progress) ==
  Append(events, [kind |-> "progress", status |-> status,
                  progress |-> progress, success |-> FALSE])
reportCompletion(events, success) ==
  Append(events, [kind |-> "completion", status |-> "",
                  progress |-> NoPercent, success |-> success])
reportStage(events, progress) == reportProgress(events, "in_progress", progress)
reportError(events) == reportProgress(events, "failed", NoPercent)
reportSuccess(events) == reportCompletion(events, TRUE)
reportFailureSilent(events) == events
reportFailure(events) == reportCompletion(events, FALSE)

ExIdle ==
  /\ exPc = "idle" /\ exVariant = "" /\ exTurns = 0 /\ exEvents = <<>>
  /\ exComments = <<>> /\ exUpdated = {} /\ exCallbackFailed = FALSE
  /\ exResult = ""
ExOnly ==
  UNCHANGED <<sigVars, whVars, issVars, apiVars, brVars, rtVars, cmVars, suVars, ehVars, tkVars, now>>

\* A step that sent callbacks: each fetch may have failed or been rejected,
\* which is logged and changes nothing else
ExSent(failed) == exCallbackFailed' = (exCallbackFailed \/ failed)

\* handleIssuesEventMcp, action "opened": the acknowledgment comment, then
\* routeToMcpContainer; a failure of either goes to the handler's catch and
\* the Executor is not run
ExWorkerAck ==
  /\ exPc = "idle"
  /\ \E ackOk \in BOOLEAN, routed \in BOOLEAN :
       /\ exComments' = IF ackOk THEN Append(exComments, "worker") ELSE exComments
       /\ exPc' = IF ackOk /\ routed THEN "accepted" ELSE "aborted"
  /\ UNCHANGED <<exVariant, exTurns, exEvents, exUpdated, exCallbackFailed, exResult>>
  /\ ExOnly

\* The function entered: reporter created, 'started' and the 'analyzing'
\* stage reported
ExStart ==
  /\ exPc = "accepted"
  /\ \E variant \in {"mcp", "context"}, failed \in BOOLEAN :
       /\ exVariant' = variant
       /\ exEvents' = reportStage(reportProgress(exEvents, "started", NoPercent),
                                  IF variant = "mcp" THEN NoPercent ELSE 10)
       /\ ExSent(failed)
  /\ exPc' = "workspace"
  /\ UNCHANGED <<exTurns, exComments, exUpdated, exResult>>
  /\ ExOnly

\* setupWorkspace, then the stages reported before the next await that can
\* reject
ExWorkspace ==
  /\ exPc = "workspace"
  /\ \E ok \in BOOLEAN, failed \in BOOLEAN :
       IF ~ok THEN /\ exPc' = "catch"
                   /\ UNCHANGED <<exEvents, exCallbackFailed>>
       ELSE IF exVariant = "mcp"
         THEN /\ exEvents' = reportStage(reportStage(exEvents, NoPercent), NoPercent)
              /\ exPc' = "comment"
              /\ ExSent(failed)
         ELSE /\ exEvents' = reportStage(exEvents, 20)
              /\ exPc' = "mcpenv"
              /\ ExSent(failed)
  /\ UNCHANGED <<exVariant, exTurns, exComments, exUpdated, exResult>>
  /\ ExOnly

\* processIssueWithMcp only: createInitialComment, then 'implementing' 25
ExInitialComment ==
  /\ exPc = "comment"
  /\ \E ok \in BOOLEAN, failed \in BOOLEAN :
       IF ok
       THEN /\ exComments' = Append(exComments, "executor")
            /\ exEvents' = reportStage(exEvents, 25)
            /\ exPc' = "mcpenv"
            /\ ExSent(failed)
       ELSE /\ exPc' = "catch"
            /\ UNCHANGED <<exComments, exEvents, exCallbackFailed>>
  /\ UNCHANGED <<exVariant, exTurns, exUpdated, exResult>>
  /\ ExOnly

\* setupMcpEnvironment, then 'implementing' 30 and 40
ExMcpEnvironment ==
  /\ exPc = "mcpenv"
  /\ \E ok \in BOOLEAN, failed \in BOOLEAN :
       IF ok
       THEN /\ exEvents' = reportStage(reportStage(exEvents, 30), 40)
            /\ exPc' = "query"
            /\ ExSent(failed)
       ELSE /\ exPc' = "catch"
            /\ UNCHANGED <<exEvents, exCallbackFailed>>
  /\ UNCHANGED <<exVariant, exTurns, exComments, exUpdated, exResult>>
  /\ ExOnly

\* One message of the query() stream
ExTurn ==
  /\ exPc = "query"
  /\ exTurns < MaxTurns
  /\ exTurns' = exTurns + 1
  /\ \E failed \in BOOLEAN :
       /\ exEvents' = reportProgress(exEvents, "in_progress",
                                     turnProgress(exVariant, exTurns + 1))
       /\ ExSent(failed)
  /\ UNCHANGED <<exPc, exVariant, exComments, exUpdated, exResult>>
  /\ ExOnly

\* The stream ends (or rejects); the stages reported before git.status()
ExQueryEnd ==
  /\ exPc = "query"
  /\ \E ok \in BOOLEAN, failed \in BOOLEAN :
       IF ok
       THEN /\ exEvents' = IF exVariant = "mcp"
                           THEN reportStage(reportStage(exEvents, 85), 90)
                           ELSE reportStage(exEvents, 90)
            /\ exPc' = "git"
            /\ ExSent(failed)
       ELSE /\ exPc' = "catch"
            /\ UNCHANGED <<exEvents, exCallbackFailed>>
  /\ UNCHANGED <<exVariant, exTurns, exComments, exUpdated, exResult>>
  /\ ExOnly

\* git.status() and git.branch(), then the branch on detected changes
ExGit ==
  /\ exPc = "git"
  /\ \E ok \in BOOLEAN, changes \in BOOLEAN, uncommitted \in BOOLEAN,
        failed \in BOOLEAN :
       IF ~ok
       THEN /\ exPc' = "catch"
            /\ UNCHANGED <<exEvents, exCallbackFailed, exResult>>
       ELSE IF exVariant = "context"
         THEN /\ exEvents' = reportSuccess(exEvents)
              /\ exResult' = "success"
              /\ exPc' = "done"
              /\ ExSent(failed)
         ELSE IF changes
           THEN /\ exEvents' =
                     IF uncommitted
                     THEN reportProgress(reportStage(exEvents, 95), "in_progress", 96)
                     ELSE reportProgress(reportStage(exEvents, 95), "in_progress", 98)
                /\ exPc' = IF uncommitted THEN "commit" ELSE "pr"
                /\ ExSent(failed)
                /\ UNCHANGED exResult
           ELSE /\ exEvents' = reportStage(exEvents, 100)
                /\ exPc' = "nochange"
                /\ ExSent(failed)
                /\ UNCHANGED exResult
  /\ UNCHANGED <<exVariant, exTurns, exComments, exUpdated>>
  /\ ExOnly

\* checkoutLocalBranch, add, commit, push of the remaining changes, then 98
ExCommit ==
  /\ exPc = "commit"
  /\ \E ok \in BOOLEAN, failed \in BOOLEAN :
       IF ok
       THEN /\ exEvents' = reportProgress(exEvents, "in_progress", 98)
            /\ exPc' = "pr"
            /\ ExSent(failed)
       ELSE /\ exPc' = "catch"
            /\ UNCHANGED <<exEvents, exCallbackFailed>>
  /\ UNCHANGED <<exVariant, exTurns, exComments, exUpdated, exResult>>
  /\ ExOnly

\* createPullRequest and updateComment inside the inner try; on success
\* reportSuccess and return, on a failure the catch (prError) reports the
\* error
ExCreatePullRequest ==
  /\ exPc = "pr"
  /\ \E created \in BOOLEAN, updated \in BOOLEAN, failed \in BOOLEAN :
       /\ exUpdated' = IF created /\ updated
                       THEN exUpdated \cup {Len(exComments)} ELSE exUpdated
       /\ IF created /\ updated
          THEN /\ exEvents' = reportSuccess(exEvents)
               /\ exResult' = "success"
               /\ exPc' = "done"
          ELSE /\ exEvents' = reportError(exEvents)
               /\ exPc' = "prfailed"
               /\ UNCHANGED exResult
       /\ ExSent(failed)
  /\ UNCHANGED <<exVariant, exTurns, exComments>>
  /\ ExOnly

\* The rest of catch (prError): updateComment, then
\* reportCompletion(true, 'Solution implemented but PR creation failed')
ExPrFailed ==
  /\ exPc = "prfailed"
  /\ \E updated \in BOOLEAN, failed \in BOOLEAN :
       IF updated
       THEN /\ exUpdated' = exUpdated \cup {Len(exComments)}
            /\ exEvents' = reportCompletion(exEvents, TRUE)
            /\ exResult' = "success"
            /\ exPc' = "done"
            /\ ExSent(failed)
       ELSE /\ exPc' = "catch"
            /\ UNCHANGED <<exUpdated, exEvents, exResult, exCallbackFailed>>
  /\ UNCHANGED <<exVariant, exTurns, exComments>>
  /\ ExOnly

\* No changes: updateComment with the analysis, then reportSuccess
ExNoChange ==
  /\ exPc = "nochange"
  /\ \E updated \in BOOLEAN, failed \in BOOLEAN :
       IF updated
       THEN /\ exUpdated' = exUpdated \cup {Len(exComments)}
            /\ exEvents' = reportSuccess(exEvents)
            /\ exResult' = "success"
            /\ exPc' = "done"
            /\ ExSent(failed)
       ELSE /\ exPc' = "catch"
            /\ UNCHANGED <<exUpdated, exEvents, exResult, exCallbackFailed>>
  /\ UNCHANGED <<exVariant, exTurns, exComments>>
  /\ ExOnly

\* The outer catch: reportError, reportFailure, success: false
ExCatch ==
  /\ exPc = "catch"
  /\ \E failed \in BOOLEAN :
       /\ exEvents' = reportFailure(reportError(exEvents))
       /\ ExSent(failed)
  /\ exResult' = "failure"
  /\ exPc' = "done"
  /\ UNCHANGED <<exVariant, exTurns, exComments, exUpdated>>
  /\ ExOnly

(***************************************************************************)
(* GitHubAppConfigDO.getInstallationToken (durable-objects.ts).  The clock *)
(* ticks in minutes here.  A call reads the newest row of                  *)
(* installation_tokens and returns at once on a fresh token; otherwise it  *)
(* awaits the credentials, the configuration and the token request, during *)
(* which another call can run, and then inserts and returns.               *)
(***************************************************************************)
MaxTokenCalls == 3
MaxTkClock == 3

\* 5 * 60 * 1000 ms, in minutes
FiveMinutes == 5

\* the null return
NoToken == 0

\* expires_at of a generated token, in minutes from the request
Lifetimes == {2, 6, 8}

TkSlots == {1, 2}

\* SELECT token, expires_at FROM installation_tokens ORDER BY created_at
\* DESC LIMIT 1 : created_at is the millisecond time of the INSERT, so the
\* newest row is the last one inserted
NewestRow(cache) == cache[Len(cache)]

\* The cached token a call returns at once, NoToken when there is none or
\* it is not fresh enough
CachedTokenNoMargin(cache, t) ==
  IF cache # <<>> /\ NewestRow(cache).expires_at - t > 0
  THEN NewestRow(cache).token ELSE NoToken
CachedToken(cache, t) ==
  IF cache # <<>> /\ NewestRow(cache).expires_at - t > FiveMinutes
  THEN NewestRow(cache).token ELSE NoToken

\* The rest of the function after a miss: credentials, installation id,
\* generateInstallationToken ("ok", "null", "throws"), the INSERT
GenerateAndCache(cache, hasCredentials, hasInstallationId, generation,
                 tokenResponse) ==
  IF ~hasCredentials \/ ~hasInstallationId \/ generation # "ok"
  THEN [token |-> NoToken, cache |-> cache]
  ELSE [token |-> tokenResponse.token, cache |-> Append(cache, tokenResponse)]

NoTokenCall ==
  [pc |-> "idle", hit |-> FALSE, readLen |-> 0, readAt |-> 0,
   available |-> FALSE, token |-> NoToken]

TkIdle ==
  /\ tkCache = <<>> /\ tkCalls = [s \in TkSlots |-> NoTokenCall]
  /\ tkStarted = 0
TkOnly ==
  UNCHANGED <<sigVars, whVars, issVars, apiVars, brVars, rtVars, cmVars, suVars, ehVars, exVars>>

\* The cache lookup; a fresh token is returned without any await
TkRead(s) ==
  /\ tkCalls[s].pc # "generating"
  /\ tkStarted < MaxTokenCalls
  /\ tkStarted' = tkStarted + 1
  /\ LET cached == CachedToken(tkCache, now)
     IN tkCalls' = [tkCalls EXCEPT ![s] =
          [pc |-> IF cached # NoToken THEN "done" ELSE "generating",
           hit |-> cached # NoToken, readLen |-> Len(tkCache),
           readAt |-> now, available |-> FALSE, token |-> cached]]
  /\ UNCHANGED <<tkCache, now>>
  /\ TkOnly

\* After the awaits: the new token is inserted and returned, or null
TkGenerate(s) ==
  /\ tkCalls[s].pc = "generating"
  /\ \E hasCredentials \in BOOLEAN, hasInstallationId \in BOOLEAN,
        generation \in {"ok", "null", "throws"}, lifetime \in Lifetimes :
       LET tokenResponse == [token |-> Len(tkCache) + 1,
                             expires_at |-> now + lifetime]
           r == GenerateAndCache(tkCache, hasCredentials, hasInstallationId,
                                 generation, tokenResponse)
       IN /\ tkCache' = r.cache
          /\ tkCalls' = [tkCalls EXCEPT ![s] =
               [@ EXCEPT !.pc = "done", !.token = r.token,
                         !.available = hasCredentials /\ hasInstallationId
                                       /\ generation = "ok"]]
  /\ UNCHANGED <<tkStarted, now>>
  /\ TkOnly

\* Date.now() advances
TkTick ==
  /\ now < MaxTkClock
  /\ now' = now + 1
  /\ UNCHANGED tkVars
  /\ TkOnly

(***************************************************************************)
(* Specifications.                                                         *)
(***************************************************************************)

\* verifyWebhookSignature applied to drawn inputs
InitSig ==
  /\ SigDraw /\ WhIdle /\ configStore \in {CHOOSE st \in Stores : st.webhookSecret # <<>>}
  /\ IssIdle /\ claudeKey = TRUE /\ ApiIdle /\ BrIdle /\ RtIdle /\ CmIdle /\ SuIdle /\ EhIdle /\ ExIdle /\ TkIdle /\ now = 0
NextSig == SigVerify
SpecSig == InitSig /\ [][NextSig]_vars

\* handleGitHubWebhook on a sequence of deliveries
InitWebhook ==
  /\ SigIdle /\ WhIdle /\ configStore \in Stores
  /\ IssIdle /\ claudeKey = TRUE /\ ApiIdle /\ BrIdle /\ RtIdle /\ CmIdle /\ SuIdle /\ EhIdle /\ ExIdle /\ TkIdle /\ now = 0
NextWebhook == WhReceive \/ WhValidate \/ WhVerify \/ WhLog \/ WhRoute
SpecWebhook == InitWebhook /\ [][NextWebhook]_vars

\* Concurrent invocations of handleIssuesEventMcp
InitIssues ==
  /\ SigIdle /\ WhIdle /\ configStore \in {CHOOSE st \in Stores : st.webhookSecret # <<>>}
  /\ IssIdle /\ claudeKey \in BOOLEAN /\ ApiIdle /\ BrIdle /\ RtIdle /\ CmIdle /\ SuIdle /\ EhIdle /\ ExIdle /\ TkIdle /\ now = 0
NextIssues ==
  \/ \E s \in Slots : IssStart(s)
  \/ \E s \in Slots : IssAck(s)
  \/ \E s \in Slots : IssCreds(s)
  \/ \E s \in Slots : IssExecStart(s)
  \/ \E s \in Slots : IssExecReturn(s)
  \/ \E s \in Slots : IssErrComment(s)
  \/ IssTick
SpecIssues == InitIssues /\ [][NextIssues]_vars

\* One invocation of handleIssuesEventMcp, run to its end
NextTrigger ==
  \/ IssStart(1) \/ IssAck(1) \/ IssCreds(1) \/ IssExecStart(1)
  \/ IssExecReturn(1) \/ IssErrComment(1) \/ IssTick
SpecTrigger == InitIssues /\ [][NextTrigger]_vars

\* Requests to the Worker, from clients and from the container's reporter
InitRouter ==
  /\ SigIdle /\ WhIdle /\ configStore \in {CHOOSE st \in Stores : st.webhookSecret # <<>>}
  /\ IssIdle /\ claudeKey = TRUE /\ ApiIdle /\ BrIdle /\ RtIdle /\ CmIdle /\ SuIdle /\ EhIdle /\ ExIdle /\ TkIdle /\ now = 0
NextRouter == RtRequest \/ RtReportProgress \/ RtReportCompletion
SpecRouter == InitRouter /\ [][NextRouter]_vars

\* The comment manager's rendering functions on drawn inputs
InitComments ==
  /\ SigIdle /\ WhIdle /\ configStore \in {CHOOSE st \in Stores : st.webhookSecret # <<>>}
  /\ IssIdle /\ claudeKey = TRUE /\ ApiIdle /\ BrIdle /\ RtIdle /\ SuIdle /\ EhIdle /\ ExIdle /\ TkIdle /\ now = 0
  /\ cmBar \in { [NoBarCall EXCEPT !.progress = p] : p \in BarInputs }
  /\ cmBody \in { [NoBodyCall EXCEPT !.result = r] : r \in CompletionResults }
NextComments == CmBuildProgressBar \/ CmBuildCompletionCommentBody
SpecComments == InitComments /\ [][NextComments]_vars

\* The setup handlers start from empty DOs; two submissions of the Claude
\* setup form
InitSetup ==
  /\ SigIdle /\ WhIdle /\ configStore \in {CHOOSE st \in Stores : st.webhookSecret # <<>>}
  /\ IssIdle /\ claudeKey = TRUE /\ ApiIdle /\ BrIdle /\ RtIdle /\ CmIdle /\ SuIdle /\ EhIdle /\ ExIdle /\ TkIdle /\ now = 0
NextClaudeSetup == SuClaudeSetup(1) \/ SuClaudeSetup(2)
SpecClaudeSetup == InitSetup /\ [][NextClaudeSetup]_vars

\* GitHub app setups and deliveries verified afterwards
NextGitHubSetup == SuGitHubCallback \/ SuVerifyDelivery
SpecGitHubSetup == InitSetup /\ [][NextGitHubSetup]_vars

\* Calls of the internal API in any order
InitApi ==
  /\ SigIdle /\ WhIdle /\ configStore \in {CHOOSE st \in Stores : st.webhookSecret # <<>>}
  /\ IssIdle /\ claudeKey = TRUE /\ ApiIdle /\ BrIdle /\ RtIdle /\ CmIdle /\ SuIdle /\ EhIdle /\ ExIdle /\ TkIdle /\ now = 0
NextApi == ApiProgress \/ ApiCompletion \/ ApiGetExecution \/ ApiTick
SpecApi == InitApi /\ [][NextApi]_vars

\* Calls of one ProgressBridge in any order
InitBridge ==
  /\ SigIdle /\ WhIdle /\ configStore \in {CHOOSE st \in Stores : st.webhookSecret # <<>>}
  /\ IssIdle /\ claudeKey = TRUE /\ ApiIdle /\ BrIdle /\ RtIdle /\ CmIdle /\ SuIdle /\ EhIdle /\ ExIdle /\ TkIdle /\ now = 0
NextBridge == BrInitialize \/ BrProgress \/ BrCompletion \/ BrCleanup \/ BrTick
SpecBridge == InitBridge /\ [][NextBridge]_vars

\* Progress callbacks of one ProgressBridge handled concurrently
NextUpdates ==
  \/ BrInitialize
  \/ \E u \in UpdateSlots : BrReceiveProgress(u)
  \/ \E u \in UpdateSlots : BrApplyUpdate(u)
SpecUpdates == InitBridge /\ [][NextUpdates]_vars

\* One invocation of the enhanced issue handler
NextEnhanced ==
  \/ EhStart \/ EhInitialize \/ EhExecute \/ EhComplete \/ EhCatch
  \/ EhOuterCatch \/ EhTick
SpecEnhanced == InitBridge /\ [][NextEnhanced]_vars

\* One trigger through the Worker's acknowledgment and the Executor
NextExecutor ==
  \/ ExWorkerAck \/ ExStart \/ ExWorkspace \/ ExInitialComment
  \/ ExMcpEnvironment \/ ExTurn \/ ExQueryEnd \/ ExGit \/ ExCommit
  \/ ExCreatePullRequest \/ ExPrFailed \/ ExNoChange \/ ExCatch
SpecExecutor == InitBridge /\ [][NextExecutor]_vars

\* Concurrent calls of getInstallationToken on one config DO
NextTokens ==
  \/ TkRead(1) \/ TkRead(2) \/ TkGenerate(1) \/ TkGenerate(2) \/ TkTick
SpecTokens == InitBridge /\ [][NextTokens]_vars

(***************************************************************************)
(* Properties.                                                             *)
(***************************************************************************)
IndexIn(seq, x) ==
  LET hits == { i \in 1..Len(seq) : seq[i] = x }
  IN IF hits = {} THEN 0 ELSE CHOOSE i \in hits : \A j \in hits : i <= j
Called(name) == IndexIn(whTrace, name) > 0

\* C2: a delivery whose signature verification returned false is answered 401,
\* and neither logWebhookDelivery nor routeWebhookEvent (nor any event handler)
\* is invoked for it.
C2_InvalidSignatureRejected ==
  (whValid.done /\ ~whValid.threw /\ ~whValid.value) =>
    /\ whPc = "done" /\ whResp = 401
    /\ ~Called("logWebhookDelivery") /\ ~Called("routeWebhookEvent")
    /\ whTrace[Len(whTrace)] = "verifyWebhookSignature"
C2_Witness ==
  /\ whValid.done /\ ~whValid.value /\ whResp = 401
  /\ whReq.event = "issues" /\ whReq.bodyParses
  /\ whReq.signature = GoodHeader(WhPayload, SecretB)

C4_FailsClosed ==
  (/\ whValid.done
   /\ \/ ~StartsWith(whReq.signature, Prefix256)
      \/ whReq.fault # "none"
      \/ ~configStore.row \/ ~configStore.decryptOk
      \/ configStore.webhookSecret = <<>>) =>
    (~whValid.threw /\ ~whValid.value /\ whResp = 401 /\ whPc = "done")
C4_Witness ==
  /\ whValid.done /\ whReq.fault = "throws" /\ whResp = 401
  /\ whReq.signature = GoodHeader(WhPayload, SecretA)
  /\ configStore.webhookSecret = SecretA

C1_OneActiveContext ==
  \A e1, e2 \in executions :
    (e1.running /\ e2.running /\ e1.repo = e2.repo /\ e1.issue = e2.issue)
      => e1 = e2

\* The outcome a stored CompletionNotification carries
Outcome(completion) ==
  [success |-> completion.success, message |-> completion.message,
   pullRequestUrl |-> completion.pullRequestUrl, error |-> completion.error]

\* The final comments posted for a context
FinalCommentsOn(contextId) ==
  { i \in DOMAIN ghComments :
      ghComments[i].kind = "final" /\ ghComments[i].contextId = contextId }

\* A step in which the internal API handler op was called for contextId
ApiCall(op, contextId) ==
  /\ apiCalls' = apiCalls + 1
  /\ apiLast'.op = op
  /\ apiLast'.contextId = contextId

\* C6: delivering the same CompletionNotification a second time for one
\* contextId changes no stored state and leaves exactly one final comment
\* posted for that context.
C6_SecondDeliveryIsNoOp ==
  [][\A c \in ApiContexts \ {<<>>} :
       ( /\ ApiCall("completion", c) /\ apiLast'.resp = 200
         /\ Has(completionStore, c)
         /\ Outcome(completionStore'[c]) = Outcome(completionStore[c]) )
       => /\ completionStore' = completionStore
          /\ progressStore' = progressStore
          /\ Cardinality(FinalCommentsOn(c))' = 1]_vars

\* C7: once a CompletionNotification is stored for a contextId, its outcome
\* and the status getExecution reports for that contextId never change.
C7_FirstCompletionWins ==
  [][\A c \in DOMAIN completionStore :
       /\ Has(completionStore', c)
       /\ Outcome(completionStore'[c]) = Outcome(completionStore[c])
       /\ ExecutionStatus(progressStore', completionStore', c)
            = ExecutionStatus(progressStore, completionStore, c)]_vars

\* C8: once getExecution reports completed or failed for a contextId, a
\* later progress update for it changes neither the stored history, nor the
\* update count, nor the reported status.
C8_TerminalIsFinal ==
  [][\A c \in ApiContexts \ {<<>>} :
       ( /\ ExecutionStatus(progressStore, completionStore, c)
              \in {"completed", "failed"}
         /\ ApiCall("progress", c) )
       => /\ progressStore' = progressStore
          /\ TotalUpdates(progressStore', c) = TotalUpdates(progressStore, c)
          /\ ExecutionStatus(progressStore', completionStore', c)
               = ExecutionStatus(progressStore, completionStore, c)]_vars

\* A context the stores know and hold no completion for
Tracked(contextId) ==
  Has(progressStore, contextId) /\ ~Has(completionStore, contextId)

\* C10: a progress or completion callback that is answered 200 for a
\* contextId without an active context (never seen, or already completed)
\* creates and changes no stored state.
C10_UnknownContextIsNoOp ==
  [][\A c \in ApiContexts \ {<<>>} :
       ( /\ ~Tracked(c)
         /\ ApiCall("progress", c) \/ ApiCall("completion", c)
         /\ apiLast'.resp = 200 )
       => UNCHANGED <<progressStore, completionStore>>]_vars

\* The maximum duration a context may stay silent: ten minutes by default
MaxDuration == OneHour \div 6

\* The timeout comments posted on an issue
TimeoutCommentsOn(issue) ==
  { i \in DOMAIN brComments :
      /\ brComments[i].issue = issue
      /\ brComments[i].kind = "final" /\ brComments[i].outcome = "timeout" }

\* C9: a sweep of stale contexts leaves no context tracked that stayed
\* silent longer than the maximum duration, and every context it evicts has
\* a timeout comment on its issue.
C9_TimeoutEvicts ==
  [][(brCalls' = brCalls + 1 /\ brLast'.op = "cleanupStaleStates") =>
       /\ \A c \in DOMAIN progressStates' :
            now' - progressStates'[c].lastUpdate <= MaxDuration
       /\ \A c \in DOMAIN progressStates \ DOMAIN progressStates' :
            TimeoutCommentsOn(progressStates[c].issue)' # {}]_vars

\* The progress callbacks received for a context
UpdatesFor(contextId) ==
  { u \in UpdateSlots :
      brInFlight[u].phase # "idle" /\ brInFlight[u].contextId = contextId }

\* C11: once every comment edit issued for a context has been applied, the
\* comment shows the stage of the progress event received last.
C11_AppliedInOrderReceived ==
  \A c \in DOMAIN progressStates :
    ( /\ UpdatesFor(c) # {}
      /\ \A u \in UpdatesFor(c) : brInFlight[u].phase = "applied" )
    => \A u \in UpdatesFor(c) :
         (\A v \in UpdatesFor(c) : brInFlight[v].received <= brInFlight[u].received)
           => brComments[brInFlight[u].commentId].stage = brInFlight[u].stage

\* The acknowledgment comments the invocation of slot s created
AckComments(s) ==
  { i \in DOMAIN ghComments :
      ghComments[i].kind = "ack" /\ ghComments[i].slot = s }

\* C12: a container execution is started only after the acknowledgment
\* comment of its invocation was created, and an invocation whose
\* acknowledgment comment failed starts no execution.
C12_CommentBeforeExecution ==
  /\ \A e \in executions : AckComments(e.slot) # {}
  /\ \A s \in Slots :
       (issPc[s] \in {"exec", "executing"}) => AckComments(s) # {}
  /\ \A s \in Slots :
       (issErr[s] = "comment") =>
         /\ AckComments(s) = {}
         /\ \A e \in executions : e.slot # s
         /\ issPc[s] \in {"errcomment", "done"}

C12_Witness ==
  \E s \in Slots :
    /\ issErr[s] = "comment" /\ issPc[s] = "done" /\ issResp[s] = 200
    /\ issData[s].action = "assigned"

\* C13: the response of an invocation that handed a task to the container
\* is sent while that execution is still running: the handler does not wait
\* for the container to finish.
C13_ResponseDoesNotWait ==
  [][\A s \in Slots :
       ( /\ issResp[s] = 0 /\ issResp'[s] = 200
         /\ \E e \in executions' : e.slot = s )
       => \E e \in executions' : e.slot = s /\ e.running]_vars

\* C14: a verified issues delivery with action opened that
\* handleGitHubWebhook has finished was handed to handleIssuesEventMcp and
\* answered 200.
C14_IssuesDeliveryIsProcessed ==
  ( /\ whPc = "done" /\ whValid.done /\ whValid.value
    /\ whReq.event = "issues" /\ whReq.action = "opened" )
  => (whResp = 200 /\ Called("handleIssuesEventMcp"))

\* The default trigger phrases
DefaultTriggerPhrases == { <<"@", "c", "l", "a", "u", "d", "e">>, <<"/", "c", "l", "a", "u", "d", "e">> }

\* C15: a verified comment-bearing delivery whose body contains a trigger
\* phrase, compared without regard to case, is handed to a handler that
\* triggers processing; one whose body contains none is not.
C15_CommentTriggers ==
  ( /\ whPc = "done" /\ whValid.done /\ whValid.value
    /\ whReq.event \in CommentEvents )
  => ( (\E phrase \in DefaultTriggerPhrases :
          Includes(ToLowerCase(whReq.commentBody), phrase))
       <=> (\E i \in DOMAIN whTrace : whTrace[i] = "handleIssuesEventMcp") )

\* The invocation of slot s took a branch that triggers processing
Triggered(s) ==
  \/ issPc[s] \in {"ack", "creds", "exec", "executing", "errcomment"}
  \/ issPc[s] = "done" /\ (AckComments(s) # {} \/ issErr[s] # "")

\* The assignee login or the label name holds a trigger keyword, compared
\* without regard to case
SignalMatches(data) ==
  \/ data.action = "assigned" /\ Includes(ToLowerCase(data.assignee), <<"c", "l", "a", "u", "d", "e">>)
  \/ /\ data.action = "labeled"
     /\ \/ Includes(ToLowerCase(data.label), <<"c", "l", "a", "u", "d", "e">>)
        \/ Includes(ToLowerCase(data.label), <<"a", "i", "-", "a", "s", "s", "i", "s", "t">>)

\* C16: an assigned or labeled issues event triggers processing exactly
\* when the assignee login or the label name matches a trigger keyword
\* without regard to case; otherwise it creates no comment and starts no
\* execution.
C16_SignalTriggers ==
  \A s \in Slots :
    ( /\ issPc[s] # "idle" /\ issData[s].shape = "ok"
      /\ issData[s].action \in {"assigned", "labeled"} )
    => /\ Triggered(s) <=> SignalMatches(issData[s])
       /\ ~SignalMatches(issData[s]) =>
            /\ \A i \in DOMAIN ghComments : ghComments[i].slot # s
            /\ \A e \in executions : e.slot # s

\* C17: a verified delivery that matches no trigger condition (an issues
\* event with action closed, a comment-bearing event without a trigger
\* phrase) is answered 200 and creates no comment and no execution.
C17_SkipIsAnswered200 ==
  ( /\ whPc = "done" /\ whValid.done /\ whValid.value
    /\ \/ whReq.event = "issues" /\ whReq.action = "closed"
       \/ /\ whReq.event \in CommentEvents
          /\ \A phrase \in DefaultTriggerPhrases :
               ~Includes(ToLowerCase(whReq.commentBody), phrase) )
  => (whResp = 200 /\ ghComments = <<>> /\ executions = {})

\* A step in which the bridge method op was called for a context it tracks
BridgeCallOnTracked(op) ==
  /\ brCalls' = brCalls + 1
  /\ brLast'.op = op
  /\ Has(progressStates, brLast'.contextId)

\* C18: when handleContainerCompletion has handled a completion for a
\* tracked context, the context is no longer in progressStates.
C18_CompletionReleases ==
  [][BridgeCallOnTracked("handleContainerCompletion")
       => ~Has(progressStates', brLast'.contextId)]_vars

\* C19: a progress or completion callback for a tracked context never
\* raises an error to its caller, whether or not the comment gateway fails.
C19_GatewayFailureSwallowed ==
  [][( \/ BridgeCallOnTracked("handleContainerProgress")
       \/ BridgeCallOnTracked("handleContainerCompletion") )
       => ~brLast'.threw]_vars

\* The progress percentage of the update stored last for a context
LastProgress(pStore, contextId) ==
  pStore[contextId][Len(pStore[contextId])].progress

\* C20: the progress percentage recorded last for a context never
\* decreases when a further progress update is stored for it.
C20_PercentNeverDecreases ==
  [][\A c \in DOMAIN progressStore :
       (ApiCall("progress", c) /\ apiLast'.resp = 200)
         => LastProgress(progressStore', c) >= LastProgress(progressStore, c)]_vars

\* The stages in their forward order
StageOrder ==
  <<"queued", "analyzing", "processing", "implementing", "testing", "completing">>
StageRank(stage) == IndexIn(StageOrder, stage)

\* C21: a context that enters progressStates has stage queued, and a
\* progress callback for a tracked context never moves its currentStage to
\* an earlier stage.
C21_StagesMoveForward ==
  [][/\ \A c \in DOMAIN progressStates' \ DOMAIN progressStates :
          progressStates'[c].currentStage = "queued"
     /\ BridgeCallOnTracked("handleContainerProgress") =>
          StageRank(progressStates'[brLast'.contextId].currentStage)
            >= StageRank(progressStates[brLast'.contextId].currentStage)]_vars

\* C22: two invocations for which routeToMcpContainer generated a
\* contextId were given different contextIds.
C22_ContextIdsDiffer ==
  \A s, t \in Slots :
    (s # t /\ issCtx[s] # <<>> /\ issCtx[t] # <<>>) => issCtx[s] # issCtx[t]

\* C23: when a progress or completion callback is accepted for the
\* contextId the router generates for a repository and an issue number, the
\* handler's parse of the contextId yields that owner, repository name and
\* issue number.
C23_ContextIdRoundTrip ==
  \A repo \in {Repo1, Repo2}, n \in Issues, t \in 0..MaxApiClock :
    ( /\ apiLast.op \in {"progress", "completion"} /\ apiLast.resp = 200
      /\ apiLast.contextId = ContextId(repo, n, t) )
    => /\ apiLast.parsed.ok
       /\ apiLast.parsed.owner = repo.owner
       /\ apiLast.parsed.repo = repo.name
       /\ apiLast.parsed.issueNumber = n

\* A delivery that carries the three required headers
HasRequiredHeaders(req) ==
  req.signature # <<>> /\ req.event # "" /\ req.delivery # ""

\* Nothing beyond the response: no helper called, no verification, and the
\* issue handler and the progress bridge untouched
NothingHandled ==
  /\ whTrace = <<>> /\ whValid = NotVerified
  /\ IssIdle /\ BrIdle

Malformed(req) == ~HasRequiredHeaders(req) \/ ~req.bodyParses

\* C25: a delivery that lacks a required header or whose body is not JSON
\* is answered 400 in the validation step itself: no lookup, verification,
\* logging or handler precedes the answer and no stored state changes.
C25_MalformedIs400 ==
  [][(whPc = "validate" /\ Malformed(whReq))
       => /\ whPc' = "done" /\ whResp' = 400
          /\ whTrace' = <<>> /\ whValid' = NotVerified
          /\ UNCHANGED <<configStore, webhookCount, issVars, apiVars, brVars>>]_vars

C25_Witness ==
  /\ whPc = "done" /\ whResp = 400 /\ whTrace = <<>>
  /\ ~whReq.bodyParses /\ whReq.event = "issues" /\ whReq.delivery # ""
  /\ whReq.signature = GoodHeader(WhPayload, SecretA)
  /\ whReq.appIdIn = "payload" /\ configStore.webhookSecret = SecretA

\* C26: a well-formed delivery other than a ping that names an app id for
\* which the config DO holds no row is answered 404.
C26_NoStoredConfigIs404 ==
  ( /\ whPc = "done" /\ ~Malformed(whReq) /\ ~whReq.bodyIsNull
    /\ whReq.event # "ping" /\ whReq.appIdIn \in {"payload", "header"}
    /\ ~configStore.row )
  => whResp = 404

\* C27: an issues delivery whose payload lacks a required nested field
\* is answered 400 by the handler, never 500.
C27_MissingFieldIs400 ==
  (issPc[1] = "done" /\ issData[1].shape # "ok") => issResp[1] = 400

\* The error comments posted on the issue of the invocation in slot s
ErrorCommentsFor(s) ==
  { i \in 1..Len(ghComments) :
      /\ ghComments[i].kind = "error"
      /\ ghComments[i].repo = issData[s].repo
      /\ ghComments[i].issue = issData[s].issue }

\* C28: when an invocation whose trigger was accepted ends after starting
\* or running the execution failed, an error comment was posted on its
\* issue.
C28_FailureIsCommented ==
  ( /\ issPc[1] = "done"
    /\ Branch(issData[1]) \in {"opened", "signal", "comment"}
    /\ issErr[1] \in {"nokey", "fetch", "container"} )
  => ErrorCommentsFor(1) # {}

\* C29: when no Claude API key is stored, a triggering issues delivery
\* whose handler reached the key check is answered 200, has an error
\* comment posted on its issue and starts no execution.
C29_MissingKeyIsCommented ==
  ( /\ issPc[1] = "done" /\ ~claudeKey
    /\ Branch(issData[1]) \in {"opened", "signal"}
    /\ issErr[1] = "nokey" )
  => /\ issResp[1] = 200
     /\ ErrorCommentsFor(1) # {}
     /\ executions = {}

\* The handler a callback of the given kind is meant for
CallbackHandler(kind) ==
  IF kind = "progress" THEN "handleProgressUpdate" ELSE "handleCompletion"

\* C30: every progress or completion callback the container's reporter
\* POSTs is dispatched to the progress or completion handler and is never
\* answered 404.
C30_CallbacksAreRouted ==
  \A i \in 1..Len(rtLog) :
    rtLog[i].kind \in {"progress", "completion"}
      => /\ rtLog[i].status # 404
         /\ rtLog[i].handler = CallbackHandler(rtLog[i].kind)

\* The number of full-block characters of a rendered bar
FilledSegments(bar) == Cardinality({ i \in 1..Len(bar) : bar[i] = "#" })

\* C31: for 0 < filesProcessed <= totalFiles the rendered bar has 20
\* segments of which exactly floor(filesProcessed / totalFiles * 20) are
\* filled.
C31_BarIsFloorOfRatio ==
  ( /\ cmBar.done
    /\ 0 < cmBar.progress.filesProcessed
    /\ cmBar.progress.filesProcessed <= cmBar.progress.totalFiles )
  => /\ ~cmBar.result.isNull /\ ~cmBar.result.threw
     /\ Len(cmBar.result.bar) = 20
     /\ FilledSegments(cmBar.result.bar)
          = (20 * cmBar.progress.filesProcessed) \div cmBar.progress.totalFiles

\* The sections of the given kind in a body
SectionsOf(body, kind) == { i \in 1..Len(body) : body[i].kind = kind }

\* C32, as stated: on success the completion comment has the pull request
\* link and the modified-file list and no error block; on failure it has
\* the error text in a fenced block and no pull request link.
C32_AsStated ==
  cmBody.done =>
    IF cmBody.result.success
      THEN /\ SectionsOf(cmBody.body, "solution") # {}
           /\ SectionsOf(cmBody.body, "files") # {}
           /\ SectionsOf(cmBody.body, "error") = {}
      ELSE /\ SectionsOf(cmBody.body, "error") # {}
           /\ SectionsOf(cmBody.body, "solution") = {}

\* C32, amended: on success the comment has the pull request link when a
\* pull request URL is given, and no error block; on failure it has the
\* error text in a fenced block when an error text is given, and no pull
\* request link; in both cases it lists the modified files when there are
\* any.
C32_CompletionBranches ==
  cmBody.done =>
    LET r == cmBody.result
        b == cmBody.body
    IN /\ (r.success /\ r.pullRequestUrl # "")
            => \E i \in SectionsOf(b, "solution") : b[i].text = <<r.pullRequestUrl>>
       /\ r.success => SectionsOf(b, "error") = {}
       /\ (~r.success /\ r.error # "")
            => \E i \in SectionsOf(b, "error") : b[i].text = <<Fence, r.error, Fence>>
       /\ ~r.success => SectionsOf(b, "solution") = {}
       /\ (r.filesModified # <<>>)
            => \E i \in SectionsOf(b, "files") : b[i].text = r.filesModified

C32_Witness ==
  /\ cmBody.done /\ ~cmBody.result.success
  /\ cmBody.result.pullRequestUrl # "" /\ cmBody.result.error # ""
  /\ SectionsOf(cmBody.body, "error") # {}
  /\ SectionsOf(cmBody.body, "solution") = {}

\* A submission that passed validation
PassedValidation(run) ==
  run.done /\ run.resp \notin { "form:Please enter your Anthropic API key",
                                 "form:Invalid Anthropic API key format" }

\* C33: two submissions of keys that both pass validation, with the same
\* outcome of the store call, leave identical log output.
C33_LogIndependentOfKey ==
  ( /\ PassedValidation(suRuns[1]) /\ PassedValidation(suRuns[2])
    /\ suRuns[1].outcome = suRuns[2].outcome )
  => suRuns[1].log = suRuns[2].log

\* C34: once the setup callback has stored an app's webhook secret (and no
\* later setup has replaced it), a delivery for that app id signed with
\* that secret, whose credentials fetch does not fail, passes verification.
C34_SetupSecretVerifies ==
  ( /\ suVerified.done /\ suVerified.fault = "none"
    /\ suSetups # <<>>
    /\ suSetups[Len(suSetups)].appId = suVerified.appId
    /\ suSetups[Len(suSetups)].webhookSecret = suVerified.signedWith )
  => suVerified.value

\* The final comments created on an issue
FinalCommentsOnIssue(issue) ==
  { i \in 1..Len(brComments) :
      brComments[i].kind = "final" /\ brComments[i].issue = issue }

\* C35: for the execution context of an invocation of the enhanced issue
\* handler at most one final comment is ever created, on every path.
C35_OneFinalComment ==
  ehIssue # 0 => Cardinality(FinalCommentsOnIssue(ehIssue)) <= 1

\* The completion notifications among the callbacks sent, by position
Completions(events) ==
  { i \in 1..Len(events) : events[i].kind = "completion" }

\* C36: a run of the Executor's issue processing sends exactly one
\* completion notification, after all of its progress updates, on every
\* path (success, failed pull request, a throw at any step), and whether or
\* not callbacks failed: before the run ends none has been sent, none is
\* followed by another callback, and a finished run has sent exactly one.
C36_OneCompletionSentLast ==
  /\ Cardinality(Completions(exEvents)) <= 1
  /\ \A i \in Completions(exEvents) : i = Len(exEvents) /\ exPc = "done"
  /\ exPc = "done" => Cardinality(Completions(exEvents)) = 1

\* A run that threw after some agent turns, with a failed callback
C36_Witness ==
  /\ exPc = "done" /\ exResult = "failure" /\ exCallbackFailed
  /\ exTurns >= 1
  /\ Cardinality(Completions(exEvents)) = 1

\* The progress updates that carry a percentage, by position
Percents(events) ==
  { i \in 1..Len(events) :
      events[i].kind = "progress" /\ events[i].progress # NoPercent }

\* C37: the percentages a run reports lie in 0..100 and never decrease in
\* emission order, for any number of agent turns.
C37_PercentagesMonotonic ==
  \A i \in Percents(exEvents) :
    /\ exEvents[i].progress >= 0 /\ exEvents[i].progress <= 100
    /\ \A j \in Percents(exEvents) :
         i < j => exEvents[i].progress <= exEvents[j].progress

\* A finished processIssueWithMcp run with enough turns to reach the cap,
\* that went on to report 98
C37_Witness ==
  /\ exPc = "done" /\ exVariant = "mcp" /\ exTurns = MaxTurns
  /\ \E i \in Percents(exEvents) : exEvents[i].progress = 98
  /\ \E i \in Percents(exEvents) :
       exEvents[i].progress = 80 /\ 40 + exTurns * 10 > 80

\* C38: once a progress update with status failed has been reported, the
\* run's completion notification has success = false.
C38_FailedThenFailure ==
  \A i \in 1..Len(exEvents) : \A j \in Completions(exEvents) :
    ( /\ i < j /\ exEvents[i].kind = "progress"
      /\ exEvents[i].status = "failed" )
    => ~exEvents[j].success

\* C39: for an accepted trigger whose run has ended, exactly one initial
\* comment exists on the issue across the Worker and the Executor, and it
\* is the only comment the run edited.
C39_OneInitialComment ==
  (exPc = "done")
  => /\ Len(exComments) = 1
     /\ exUpdated \subseteq {1}

\* C40: a call of getInstallationToken returns the newest cached token,
\* without touching the cache, exactly when that token expires more than
\* five minutes after the lookup; otherwise it goes on to generate, and
\* then either appends the generated token and returns it, or, when the
\* credentials, the installation id or the generation are unavailable,
\* returns null and leaves the cache as it is.
C40_TokenCache ==
  [][ \A s \in TkSlots :
        /\ (tkCalls'[s] # tkCalls[s] /\ tkCalls[s].pc # "generating") =>
             LET fresh == /\ tkCache # <<>>
                          /\ tkCache[Len(tkCache)].expires_at > now + FiveMinutes
             IN /\ tkCache' = tkCache
                /\ fresh => /\ tkCalls'[s].pc = "done"
                            /\ tkCalls'[s].token = tkCache[Len(tkCache)].token
                /\ ~fresh => tkCalls'[s].pc = "generating"
        /\ (tkCalls'[s] # tkCalls[s] /\ tkCalls[s].pc = "generating") =>
             /\ tkCalls'[s].pc = "done"
             /\ tkCalls'[s].available =>
                  /\ tkCalls'[s].token # NoToken
                  /\ Len(tkCache') = Len(tkCache) + 1
                  /\ SubSeq(tkCache', 1, Len(tkCache)) = tkCache
                  /\ tkCache'[Len(tkCache')].token = tkCalls'[s].token
             /\ ~tkCalls'[s].available =>
                  /\ tkCalls'[s].token = NoToken
                  /\ tkCache' = tkCache
    ]_vars

\* A call that found an unexpired token with five minutes or less to live,
\* generated a new one and returned it, while another call has returned a
\* cached token
C40_Witness ==
  \E s \in TkSlots, o \in TkSlots :
    /\ tkCalls[s].pc = "done" /\ ~tkCalls[s].hit
    /\ tkCalls[s].readLen >= 1
    /\ tkCache[tkCalls[s].readLen].expires_at > tkCalls[s].readAt
    /\ tkCalls[s].token # NoToken
    /\ tkCalls[o].pc = "done" /\ tkCalls[o].hit

====
